---- MODULE Spec2Model ----
(***************************************************************************)
(* tu-nerr: the persisted store (artists / tracks), the discovery crawler  *)
(* of timed_harvester.py, the re-analysis pass of complexity_heal.py and   *)
(* the HTTP retry helper api_request_with_retry.                           *)
(*                                                                         *)
(* Conventions.  A Python value that may be None is a sequence of length   *)
(* at most one: <<>> is None, <<v>> is v.  A float is an exact rational    *)
(* <<numerator, denominator>> in lowest terms.  A SQL NULL is <<>>.        *)
(***************************************************************************)
EXTENDS Integers, Sequences, FiniteSets, TLC

VARIABLES
    artists,        \* rows of table "artists"
    tracks,         \* rows of table "tracks"
    next_artist_id, \* the artists.id sequence
    next_track_id,  \* the tracks.id sequence
    pc,             \* position of the (single) running script
    job,            \* which script runs: "none", "crawl", "heal"
    ops,            \* number of scripts / operations started so far
    run,            \* locals of run_automated_harvest_scheduler
    cur,            \* locals of process_artist_and_commit / process_artist_sql
    now,            \* time.time() - start_time, in seconds
    h_fail,         \* history: candidates that failed in a row in this run
    stop_reason,    \* history: why the last run stopped
    rq,             \* locals of one api_request_with_retry call
    knn,            \* one similarity query: the frame passed, the arguments, the outcome
    au,             \* one analyze_audio call: what the network / decoder did, the outcome
    wk,             \* locals of the workers that run add_artist side by side
    pv              \* one call of a provider helper: what the provider answers, the result

vars == <<artists, tracks, next_artist_id, next_track_id, pc, job, ops, run,
          cur, now, h_fail, stop_reason, rq, knn, au, wk, pv>>

storeVars == <<artists, tracks, next_artist_id, next_track_id>>

auxVars == <<knn, au, wk, pv>>

-----------------------------------------------------------------------------
(* Bounds of the model *)

MaxOps == 2         \* scripts / direct operations started per behaviour
MaxPageLen == 1     \* names in one page returned by get_neighbors
MaxPreviews == 2    \* previews returned by get_top_tracks_previews
MaxTicks == 1       \* clock advances per run
MaxSeedsArg == 1    \* largest --seeds argument tried
MaxLimitMinutes == 1 \* largest --limit argument tried
MaxExtraAttempts == 2 \* attempts beyond the default that a caller asks for
MaxCorpus == 5      \* artists in the store of a similarity query
MaxK == 2           \* neighbours asked for
MaxTags == 2        \* tags in one answer of the tag provider
MaxMatches == 2     \* artists in one answer of the catalog search
MaxTop == 3         \* entries in one top-tracks answer
MaxDated == 2       \* dated albums on one page of a discography
MaxAlbumPages == 2  \* pages of a discography
MaxScanPages == 3   \* largest total a listing answer reports, in pages
NumWorkers == 2     \* workers that run add_artist at the same time
RawFactor == 2      \* largest raw measurement tried, in calibration constants

(* Program constants *)

MAX_PAGES == 3
SeedQuota == 2
MAX_FAILURES_ALLOWED == 10
DefaultAttempts == 3
MinCorpus == 5        \* ai_engine.py: if len(df_db) < 5
TRACKS_TO_ANALYZE == 5 \* timed_harvester.py line 19
AlbumPageSize == 50   \* get_release_year: limit = 50
SecondsPerMinute == 60

SEED_ARTISTS == <<"Metallica", "The Beatles", "Gorillaz", "Chris Stapleton", "Dolly Parton">>

-----------------------------------------------------------------------------
(* Values *)

None == <<>>
Some(v) == <<v>>
NULL == <<>>

\* Artist names the providers can return; "ABBA" and "abba" differ in casing only.
Names == {"abba", "ABBA", "muse"}

\* str.lower()
Lower(n) == CASE n = "ABBA" -> "abba"
              [] n = "T1" -> "t1"
              [] n = "Metallica" -> "metallica"
              [] n = "The Beatles" -> "the beatles"
              [] n = "Gorillaz" -> "gorillaz"
              [] n = "Chris Stapleton" -> "chris stapleton"
              [] n = "Dolly Parton" -> "dolly parton"
              [] OTHER -> n

Half == <<1, 2>>    \* the 0.5 default of Tag_Energy and Valence

RECURSIVE GCD(_, _)
GCD(a, b) == IF b = 0 THEN a ELSE GCD(b, a % b)

Reduce(n, d) == IF n = 0 THEN <<0, 1>> ELSE <<n \div GCD(n, d), d \div GCD(n, d)>>

RAdd(a, b) == Reduce(a[1] * b[2] + b[1] * a[2], a[2] * b[2])

RECURSIVE SumField(_, _)
SumField(S, f) ==
    IF S = {} THEN <<0, 1>>
    ELSE LET t == CHOOSE x \in S : TRUE
         IN  RAdd(t[f], SumField(S \ {t}, f))

\* a sum taken for a mean: the division by the number of tracks is left out
SumAsMean(S, f) == SumField(S, f)

\* df[f].mean() over a non-empty set of track rows
Mean(S, f) == LET s == SumField(S, f)
              IN  Reduce(s[1], s[2] * Cardinality(S))

Fields == {"bpm", "brightness", "noisiness", "warmth", "complexity"}

\* what analyze_audio can return for a preview that decodes
PhysLow == [bpm |-> <<90, 1>>, brightness |-> <<1, 2>>, noisiness |-> <<1, 4>>,
            warmth |-> <<3, 4>>, complexity |-> <<1, 1>>]
PhysHigh == [bpm |-> <<121, 1>>, brightness |-> <<1, 1>>, noisiness |-> <<0, 1>>,
             warmth |-> <<1, 4>>, complexity |-> <<1, 2>>]
Physics == {PhysLow, PhysHigh}

\* the provider's top tracks, in provider order
TopTracks == <<[title |-> "t1", preview |-> "u1"], [title |-> "t2", preview |-> "u2"],
               [title |-> "t3", preview |-> "u3"], [title |-> "t4", preview |-> "u4"]>>

TrackLists == {SubSeq(TopTracks, 1, k) : k \in 0..MaxPreviews}

\* (tags non-empty, Tag_Energy) as returned by get_lastfm_tags
TagResults == {<<FALSE, Half>>, <<TRUE, <<9, 10>>>>}

\* get_audiodb_mood
MoodResults == {Half, <<4, 5>>}

-----------------------------------------------------------------------------
(* The store *)

NewRow(id, data) ==
    [id |-> id, name |-> data.Artist, tag_energy |-> data.Tag_Energy,
     valence |-> data.Valence,
     avg_bpm |-> NULL, avg_brightness |-> NULL, avg_noisiness |-> NULL,
     avg_warmth |-> NULL, avg_complexity |-> NULL]

\* a write that replaces the stored row by a fresh one under the same id
ReplaceRow(a, data) == NewRow(a.id, data)

\* the payload columns written on an existing row
UpdatePayload(a, data) ==
    [a EXCEPT !.tag_energy = data.Tag_Energy, !.valence = data.Valence]

\* WHERE name = n (text equality, case-sensitive)
RowsNamed(arts, n) == {a \in arts : a.name = n}

\* src/db_model.py add_artist: select by name, then update or insert
add_artist(arts, nid, data) ==
    LET existing == RowsNamed(arts, data.Artist)
    IN  IF existing # {}
        THEN LET e == CHOOSE a \in existing : TRUE
             IN  [artists |-> (arts \ {e}) \cup {UpdatePayload(e, data)},
                  id |-> Some(e.id), next |-> nid]
        ELSE [artists |-> arts \cup {NewRow(nid, data)},
              id |-> Some(nid), next |-> nid + 1]

\* timed_harvester.py add_artist: upsert(payload, on_conflict="name")
upsert_artist(arts, nid, data) ==
    LET existing == RowsNamed(arts, data.Artist)
    IN  IF existing # {}
        THEN LET e == CHOOSE a \in existing : TRUE
             IN  [artists |-> (arts \ {e}) \cup {UpdatePayload(e, data)},
                  id |-> Some(e.id), next |-> nid]
        ELSE [artists |-> arts \cup {NewRow(nid, data)},
              id |-> Some(nid), next |-> nid + 1]

\* add_track: one row per analysed preview
add_track(trks, tid, aid, rec) ==
    trks \cup {[id |-> tid, artist_id |-> aid, title |-> rec.title,
                \* track_data.get('preview', '')
                preview_url |-> IF "preview" \in DOMAIN rec THEN rec.preview ELSE "",
                bpm |-> rec.bpm, brightness |-> rec.brightness,
                noisiness |-> rec.noisiness, warmth |-> rec.warmth,
                complexity |-> rec.complexity]}

TracksOf(trks, aid) == {t \in trks : t.artist_id = aid}

\* halfway between a stored composite and a fresh mean
Blend(old, new) == IF old = NULL THEN new
                   ELSE Reduce(old[1] * new[2] + new[1] * old[2], 2 * old[2] * new[2])

\* a running update: the fresh mean is folded into the composite already stored
synthesize_running(arts, trks, aid) ==
    LET mine == TracksOf(trks, aid)
    IN  IF mine = {} THEN arts
        ELSE {IF Some(a.id) = aid
              THEN [a EXCEPT !.avg_bpm = Blend(@, Mean(mine, "bpm")),
                             !.avg_brightness = Blend(@, Mean(mine, "brightness")),
                             !.avg_noisiness = Blend(@, Mean(mine, "noisiness")),
                             !.avg_warmth = Blend(@, Mean(mine, "warmth")),
                             !.avg_complexity = Blend(@, Mean(mine, "complexity"))]
              ELSE a : a \in arts}

\* synthesize_scores: nothing is written when the artist has no track
synthesize_scores(arts, trks, aid) ==
    LET mine == TracksOf(trks, aid)
    IN  IF mine = {} THEN arts
        ELSE {IF Some(a.id) = aid
              THEN [a EXCEPT !.avg_bpm = Mean(mine, "bpm"),
                             !.avg_brightness = Mean(mine, "brightness"),
                             !.avg_noisiness = Mean(mine, "noisiness"),
                             !.avg_warmth = Mean(mine, "warmth"),
                             !.avg_complexity = Mean(mine, "complexity")]
              ELSE a : a \in arts}

\* FOREIGN KEY (artist_id) REFERENCES artists (id): the tracks that reference a
\* row named n.  The key declares no ON DELETE action.
Referencing(arts, trks, n) ==
    {t \in trks : \E a \in RowsNamed(arts, n) : t.artist_id = Some(a.id)}

\* delete_artist: DELETE FROM artists WHERE name = artist_name
delete_artist(arts, n) == arts \ RowsNamed(arts, n)

\* fetch_all_artists_df()['Artist'].str.lower() as a set
KnownLower(arts) == {Lower(a.name) : a \in arts}

-----------------------------------------------------------------------------
(* Script state *)

\* the scheduler's locals, and a record of what it did for the current seed:
\* pages requested, whether one came back empty, artist rows inserted
RunIdle == [time_limit_seconds |-> 0, source_artists |-> <<>>,
            added_for_this_seed |-> 0, page |-> 1, total_added |-> 0,
            candidates |-> <<>>, existing_artists |-> {},
            requested |-> 0, empty_page |-> FALSE, seed_new |-> 0]

CurIdle == [cand |-> None, d_info |-> None, is_healing |-> FALSE,
            tag_energy |-> Half, valence |-> Half, artist_id |-> None,
            todo |-> <<>>, analyzed_count |-> 0, result_name |-> None]

RqIdle == [variant |-> "none", attempts |-> 0, attempt |-> 0, requests |-> 0,
           slept |-> <<>>, status |-> "none", result |-> "idle"]

\* no query has been made
KnnIdle == [mode |-> "none", frame |-> [index |-> <<>>, rows |-> <<>>], center |-> None,
            title |-> None, k |-> 0, out |-> [kind |-> "idle", rows |-> <<>>]]

\* analyze_audio has not been called
AuIdle == [variant |-> "none", preview |-> None, download |-> "none", write |-> "none",
           decode |-> "none",
           raw |-> None, tmp |-> "none", result |-> "idle", value |-> None]

\* no worker is running
WkIdle == <<>>

\* no provider helper has been called
PvIdle == [fn |-> "none", variant |-> "none", response |-> None, result |-> None,
           done |-> FALSE]

Init ==
    /\ artists = {}
    /\ tracks = {}
    /\ next_artist_id = 1
    /\ next_track_id = 1
    /\ pc = "idle"
    /\ job = "none"
    /\ ops = 0
    /\ run = RunIdle
    /\ cur = CurIdle
    /\ now = 0
    /\ h_fail = 0
    /\ stop_reason = "none"
    /\ rq = RqIdle
    /\ knn = KnnIdle
    /\ au = AuIdle
    /\ wk = WkIdle
    /\ pv = PvIdle

Ready == pc \in {"idle", "finished"} /\ ops < MaxOps

\* random.sample(full_list, k): k distinct names in some order
Samples(S, k) == {s \in [1..k -> S] : \A i, j \in 1..k : s[i] = s[j] => i = j}

Min(a, b) == IF a < b THEN a ELSE b

\* the pages get_neighbors can return ([] on any provider error)
Pages == UNION {[1..k -> Names] : k \in 0..MaxPageLen}

\* a clock check that trips one minute late
TimeUpLate == now > run.time_limit_seconds + SecondsPerMinute

\* time.time() - start_time > time_limit_seconds
TimeUp == now > run.time_limit_seconds

-----------------------------------------------------------------------------
(* Direct store operations *)

\* manual_fix.py fix_specific_artist: add_artist on the catalog's name
ManualFix ==
    /\ Ready
    /\ \E n \in Names, te \in {tr[2] : tr \in TagResults}, va \in MoodResults :
         LET r == add_artist(artists, next_artist_id,
                             [Artist |-> n, Tag_Energy |-> te, Valence |-> va])
         IN  /\ artists' = r.artists
             /\ next_artist_id' = r.next
    /\ ops' = ops + 1
    /\ pc' = "idle"
    /\ job' = "none"
    /\ UNCHANGED <<tracks, next_track_id, run, cur, now, h_fail, stop_reason, rq, auxVars>>

\* delete_artist(artist_name).  It deletes from "artists" only.  With the key
\* not enforced the rows go and their tracks stay (returns True); with the key
\* enforced the delete of a referenced row raises, is caught, and nothing
\* changes (returns False).
DeleteArtist ==
    /\ Ready
    /\ \E n \in Names :
         \/ artists' = delete_artist(artists, n)
         \/ /\ Referencing(artists, tracks, n) # {}
            /\ artists' = artists
    /\ tracks' = tracks
    /\ ops' = ops + 1
    /\ pc' = "idle"
    /\ job' = "none"
    /\ UNCHANGED <<next_artist_id, next_track_id, run, cur, now, h_fail, stop_reason,
                   rq, auxVars>>

-----------------------------------------------------------------------------
(* timed_harvester.py run_automated_harvest_scheduler *)

StartRun ==
    /\ Ready
    /\ \E minutes \in 0..MaxLimitMinutes, max_seeds \in 1..MaxSeedsArg :
         \E src \in IF artists = {} THEN {SEED_ARTISTS}
                    ELSE Samples({a.name : a \in artists},
                                 Min(Cardinality(artists), max_seeds)) :
            run' = [RunIdle EXCEPT !.time_limit_seconds = minutes * SecondsPerMinute,
                                   !.source_artists = src,
                                   !.existing_artists = KnownLower(artists)]
    /\ now' = 0
    /\ h_fail' = 0
    /\ stop_reason' = "none"
    /\ ops' = ops + 1
    /\ job' = "crawl"
    /\ pc' = "seed_loop"
    /\ cur' = CurIdle
    /\ UNCHANGED <<storeVars, rq, auxVars>>

\* the clock advances while a run is under way
Tick ==
    /\ job = "crawl"
    /\ pc \notin {"idle", "finished", "aborted"}
    /\ now < MaxTicks * SecondsPerMinute
    /\ now' = now + SecondsPerMinute
    /\ UNCHANGED <<storeVars, pc, job, ops, run, cur, h_fail, stop_reason, rq, auxVars>>

\* for seed_artist in source_artists: (lines 373-381)
SeedLoop ==
    /\ job = "crawl" /\ pc = "seed_loop"
    /\ IF run.source_artists = <<>>
       THEN /\ pc' = "finished" /\ stop_reason' = "exhausted" /\ run' = run
       ELSE IF TimeUp
       THEN /\ pc' = "finished" /\ stop_reason' = "time" /\ run' = run
       ELSE /\ run' = [run EXCEPT !.source_artists = Tail(@),
                                  !.added_for_this_seed = 0, !.page = 1,
                                  !.requested = 0, !.empty_page = FALSE, !.seed_new = 0]
            /\ pc' = "page_loop"
            /\ stop_reason' = stop_reason
    /\ UNCHANGED <<storeVars, job, ops, cur, now, h_fail, rq, auxVars>>

\* a loop that asks for pages until one comes back empty, whatever was added
PageLoopNoQuota(pages) ==
    /\ job = "crawl" /\ pc = "page_loop"
    /\ \E candidates \in pages :
         IF candidates = <<>>
         THEN /\ pc' = "seed_loop"
              /\ run' = [run EXCEPT !.requested = @ + 1, !.empty_page = TRUE]
         ELSE /\ pc' = "cand_loop"
              /\ run' = [run EXCEPT !.candidates = candidates, !.requested = @ + 1]
    /\ UNCHANGED <<storeVars, job, ops, cur, now, h_fail, stop_reason, rq, auxVars>>

\* while added_for_this_seed < 2 and page <= MAX_PAGES: (lines 383-385), with
\* get_neighbors answering one of pages
PageLoopWith(pages) ==
    /\ job = "crawl" /\ pc = "page_loop"
    /\ IF run.added_for_this_seed < SeedQuota /\ run.page <= MAX_PAGES
       THEN \E candidates \in pages :
              IF candidates = <<>>
              THEN /\ pc' = "seed_loop"
                   /\ run' = [run EXCEPT !.requested = @ + 1, !.empty_page = TRUE]
              ELSE /\ pc' = "cand_loop"
                   /\ run' = [run EXCEPT !.candidates = candidates, !.requested = @ + 1]
       ELSE /\ pc' = "seed_loop" /\ run' = run
    /\ UNCHANGED <<storeVars, job, ops, cur, now, h_fail, stop_reason, rq, auxVars>>

PageLoop == PageLoopWith(Pages)

\* for cand in candidates: (lines 387-393), then page += 1 (line 401)
CandLoop ==
    /\ job = "crawl" /\ pc = "cand_loop"
    /\ IF run.candidates = <<>> \/ TimeUp \/ run.added_for_this_seed >= SeedQuota
       THEN /\ run' = [run EXCEPT !.candidates = <<>>, !.page = @ + 1]
            /\ pc' = "page_loop"
            /\ cur' = cur
       ELSE /\ run' = [run EXCEPT !.candidates = Tail(@)]
            /\ cur' = [CurIdle EXCEPT !.cand = Some(Head(run.candidates))]
            /\ pc' = "catalog"
    /\ UNCHANGED <<storeVars, job, ops, now, h_fail, stop_reason, rq, auxVars>>

\* a scheduler that counts every processed candidate, found or not
AfterCandCountsAll ==
    /\ job = "crawl" /\ pc = "after_cand"
    /\ run' = [run EXCEPT !.added_for_this_seed = @ + 1, !.total_added = @ + 1]
    /\ h_fail' = 0
    /\ cur' = CurIdle
    /\ pc' = "cand_loop"
    /\ UNCHANGED <<storeVars, job, ops, now, stop_reason, rq, auxVars>>

\* if result_name: ... (lines 395-400)
AfterCand ==
    /\ job = "crawl" /\ pc = "after_cand"
    /\ IF cur.result_name # None
       THEN /\ run' = [run EXCEPT
                         !.existing_artists = @ \cup {Lower(cur.result_name[1])},
                         !.added_for_this_seed = @ + 1,
                         !.total_added = @ + 1]
            /\ h_fail' = 0
       ELSE /\ run' = run
            /\ h_fail' = Min(h_fail + 1, MAX_FAILURES_ALLOWED)
    /\ cur' = CurIdle
    /\ pc' = "cand_loop"
    /\ UNCHANGED <<storeVars, job, ops, now, stop_reason, rq, auxVars>>

-----------------------------------------------------------------------------
(* complexity_heal.py run_bulk_harvest: one pass of the audit loop *)

\* for artist_name in source_artists: process_artist_sql(artist_name)
StartHeal ==
    /\ Ready
    /\ \E n \in IF artists = {} THEN {SEED_ARTISTS[i] : i \in 1..Len(SEED_ARTISTS)}
                ELSE {a.name : a \in artists} :
         cur' = [CurIdle EXCEPT !.cand = Some(n)]
    /\ ops' = ops + 1
    /\ job' = "heal"
    /\ pc' = "catalog"
    /\ run' = RunIdle
    /\ now' = 0
    /\ h_fail' = 0
    /\ stop_reason' = "none"
    /\ UNCHANGED <<storeVars, rq, auxVars>>

\* if result_name: ... else: ... (lines 313-320)
HealDone ==
    /\ job = "heal" /\ pc = "after_cand"
    /\ pc' = "idle"
    /\ cur' = CurIdle
    /\ UNCHANGED <<storeVars, job, ops, run, now, h_fail, stop_reason, rq, auxVars>>

-----------------------------------------------------------------------------
(* process_artist_and_commit (crawl) / process_artist_sql (heal) *)

Option(S) == {None} \cup {Some(x) : x \in S}

\* 1. Metadata: get_deezer_data, then the known / healing check
CatalogWith(results) ==
    /\ pc = "catalog"
    /\ \E d_info \in results :
         IF d_info = None
         THEN /\ cur' = [cur EXCEPT !.cand = None, !.d_info = None, !.result_name = None]
              /\ pc' = "after_cand"
         ELSE IF job = "crawl" /\ Lower(d_info[1]) \in run.existing_artists
         THEN /\ cur' = [cur EXCEPT !.cand = None, !.d_info = d_info,
                                !.result_name = d_info]
              /\ pc' = "after_cand"
         ELSE /\ cur' = [cur EXCEPT !.cand = None, !.d_info = d_info,
                           !.is_healing = (job = "heal"
                                           /\ Lower(d_info[1]) \in KnownLower(artists))]
              /\ pc' = "tags"
    /\ UNCHANGED <<storeVars, job, ops, run, now, h_fail, stop_reason, rq, auxVars>>

\* the catalog provider answers: no match, or any artist name
Catalog == CatalogWith(Option(Names))

\* the catalog provider is down: every lookup fails
CatalogDown == CatalogWith({None})

\* get_lastfm_tags, "if not tags: return None", get_audiodb_mood
Tags ==
    /\ pc = "tags"
    /\ \E tr \in TagResults, va \in MoodResults :
         IF ~tr[1]
         THEN /\ cur' = [cur EXCEPT !.result_name = None]
              /\ pc' = "after_cand"
         ELSE /\ cur' = [cur EXCEPT !.tag_energy = tr[2], !.valence = va]
              /\ pc' = "upsert"
    /\ UNCHANGED <<storeVars, job, ops, run, now, h_fail, stop_reason, rq, auxVars>>

ArtistData == [Artist |-> cur.d_info[1], Tag_Energy |-> cur.tag_energy,
               Valence |-> cur.valence]

\* 2. Insert Parent: add_artist(artist_data); then get_top_tracks_previews
Upsert ==
    /\ pc = "upsert"
    /\ LET r == IF job = "crawl"
                THEN upsert_artist(artists, next_artist_id, ArtistData)
                ELSE add_artist(artists, next_artist_id, ArtistData)
       IN  /\ artists' = r.artists
           /\ next_artist_id' = r.next
           /\ run' = IF job = "crawl" /\ r.next > next_artist_id
                     THEN [run EXCEPT !.seed_new = @ + 1] ELSE run
           /\ IF cur.is_healing
              THEN /\ cur' = [cur EXCEPT !.artist_id = r.id]
                   /\ pc' = "clean"
              ELSE /\ \E tl \in TrackLists :
                        cur' = [cur EXCEPT !.artist_id = r.id, !.todo = tl]
                   /\ pc' = "tracks"
    /\ UNCHANGED <<tracks, next_track_id, job, ops, now, h_fail, stop_reason, rq, auxVars>>

\* timed_harvester.py add_artist answers None: no client could be created
\* (`if not supabase: return None`, nothing is written), or the upsert was
\* executed and its answer carries no row (`... if response.data else None`).
\* process_artist_and_commit does not test artist_id and goes on to the tracks.
UpsertNoId ==
    /\ pc = "upsert" /\ job = "crawl"
    /\ \E written \in BOOLEAN :
         LET r == IF written THEN upsert_artist(artists, next_artist_id, ArtistData)
                  ELSE [artists |-> artists, id |-> None, next |-> next_artist_id]
         IN  /\ artists' = r.artists
             /\ next_artist_id' = r.next
             /\ run' = IF r.next > next_artist_id
                       THEN [run EXCEPT !.seed_new = @ + 1] ELSE run
    /\ \E tl \in TrackLists : cur' = [cur EXCEPT !.artist_id = None, !.todo = tl]
    /\ pc' = "tracks"
    /\ UNCHANGED <<tracks, next_track_id, job, ops, now, h_fail, stop_reason, rq, auxVars>>

\* complexity_heal.py: tracks.delete().eq("artist_id", artist_id)
Clean ==
    /\ pc = "clean"
    /\ tracks' = tracks \ TracksOf(tracks, cur.artist_id)
    /\ \E tl \in TrackLists : cur' = [cur EXCEPT !.todo = tl]
    /\ pc' = "tracks"
    /\ UNCHANGED <<artists, next_artist_id, next_track_id, job, ops, run, now,
                   h_fail, stop_reason, rq, auxVars>>

\* 3. Tracks: analyze_audio(t['preview']); if phys: add_track(...)
TrackStep ==
    /\ pc = "tracks" /\ cur.todo # <<>>
    /\ \E phys \in Option(Physics) :
         LET t == Head(cur.todo)
         IN  IF phys = None
             THEN /\ cur' = [cur EXCEPT !.todo = Tail(@)]
                  /\ UNCHANGED <<tracks, next_track_id>>
             ELSE /\ tracks' = add_track(tracks, next_track_id, cur.artist_id,
                                 [title |-> t.title, preview |-> t.preview,
                                  bpm |-> phys[1].bpm, brightness |-> phys[1].brightness,
                                  noisiness |-> phys[1].noisiness,
                                  warmth |-> phys[1].warmth,
                                  complexity |-> phys[1].complexity])
                  /\ next_track_id' = next_track_id + 1
                  /\ cur' = [cur EXCEPT !.todo = Tail(@), !.analyzed_count = @ + 1]
    /\ UNCHANGED <<artists, next_artist_id, pc, job, ops, run, now, h_fail,
                   stop_reason, rq, auxVars>>

\* 4. Synthesize: if analyzed_count > 0: synthesize_scores(artist_id); return clean_name
Synth ==
    /\ pc = "tracks" /\ cur.todo = <<>>
    /\ artists' = IF cur.analyzed_count > 0
                  THEN synthesize_scores(artists, tracks, cur.artist_id)
                  ELSE artists
    /\ cur' = [cur EXCEPT !.result_name = cur.d_info]
    /\ pc' = "after_cand"
    /\ UNCHANGED <<tracks, next_artist_id, next_track_id, job, ops, run, now,
                   h_fail, stop_reason, rq, auxVars>>

\* analyze_audio(t['preview']) raises: the download failed, tmp_path is still
\* None and the finally block's os.path.exists(tmp_path) throws TypeError
AnalyzeRaises ==
    /\ pc = "tracks" /\ cur.todo # <<>>
    /\ pc' = "aborted"
    /\ stop_reason' = "analysis_exception"
    /\ UNCHANGED <<storeVars, job, ops, run, cur, now, h_fail, rq, auxVars>>

\* a store call's .execute() raises; nothing up the call chain catches it
StoreRaises ==
    /\ \/ pc \in {"upsert", "clean"}
       \/ pc = "tracks" /\ (cur.todo # <<>> \/ cur.analyzed_count > 0)
    /\ pc' = "aborted"
    /\ stop_reason' = "exception"
    /\ UNCHANGED <<storeVars, job, ops, run, cur, now, h_fail, rq, auxVars>>

-----------------------------------------------------------------------------

\* a run started on a populated store samples its seeds from the store
WarmRun == artists # {} /\ StartRun

\* a run started on an empty store takes the five SEED_ARTISTS
ColdRun == artists = {} /\ StartRun

Next ==
    \/ ManualFix
    \/ DeleteArtist
    \/ WarmRun
    \/ Tick
    \/ SeedLoop
    \/ PageLoop
    \/ CandLoop
    \/ AfterCand
    \/ StartHeal
    \/ HealDone
    \/ Catalog
    \/ Tags
    \/ Upsert
    \/ UpsertNoId
    \/ Clean
    \/ TrackStep
    \/ AnalyzeRaises
    \/ Synth
    \/ StoreRaises

Spec == Init /\ [][Next]_vars

\* the cold start of the crawler while the catalog provider is down
NextCold ==
    \/ ColdRun
    \/ Tick
    \/ SeedLoop
    \/ PageLoop
    \/ CandLoop
    \/ CatalogDown
    \/ AfterCand

ColdSpec == Init /\ [][NextCold]_vars

-----------------------------------------------------------------------------
(* one crawl from a store of one artist, among neighbours that are mostly new *)

\* names the similar-artists provider lists for the seed
WideNames == Names \cup {"Metallica", "Gorillaz"}

WidePages == UNION {[1..k -> WideNames] : k \in 0..MaxPageLen}

PageWide == PageLoopWith(WidePages)

\* the catalog has no match, or its first match is the candidate as spelled
CatalogEcho == CatalogWith({None, cur.cand})

SeedInit ==
    /\ artists = {NewRow(1, [Artist |-> "muse", Tag_Energy |-> Half, Valence |-> Half])}
    /\ tracks = {}
    /\ next_artist_id = 2
    /\ next_track_id = 1
    /\ pc = "idle"
    /\ job = "none"
    /\ ops = MaxOps - 1
    /\ run = RunIdle
    /\ cur = CurIdle
    /\ now = 0
    /\ h_fail = 0
    /\ stop_reason = "none"
    /\ rq = RqIdle
    /\ knn = KnnIdle
    /\ au = AuIdle
    /\ wk = WkIdle
    /\ pv = PvIdle

NextSeed ==
    \/ WarmRun
    \/ Tick
    \/ SeedLoop
    \/ PageWide
    \/ CandLoop
    \/ AfterCand
    \/ CatalogEcho
    \/ Tags
    \/ Upsert
    \/ UpsertNoId
    \/ TrackStep
    \/ AnalyzeRaises
    \/ Synth
    \/ StoreRaises

SeedSpec == SeedInit /\ [][NextSeed]_vars

-----------------------------------------------------------------------------
(* one crawl in which every provider call and every store call returns: the  *)
(* script is one thread, so a step that can be taken is taken                *)

NextLive ==
    \/ WarmRun
    \/ Tick
    \/ SeedLoop
    \/ PageLoop
    \/ CandLoop
    \/ AfterCand
    \/ Catalog
    \/ Tags
    \/ Upsert
    \/ UpsertNoId
    \/ TrackStep
    \/ AnalyzeRaises
    \/ Synth

LiveSpec == SeedInit /\ [][NextLive]_vars /\ WF_vars(NextLive)

-----------------------------------------------------------------------------
(* api_request_with_retry(url, headers, verify, timeout, attempts) *)

\* the copies of the helper: timed_harvester.py and injector.py read alike
Variants == {"timed_harvester", "injector", "complexity_heal"}

\* what one requests.get can do: a status code, or raise RequestException
Statuses == {"200", "403", "404", "429", "500", "503", "exception"}

\* the attempts arguments in use: the default, and analyze_audio's in injector.py
AttemptArgs == {DefaultAttempts, DefaultAttempts + MaxExtraAttempts}

Slept(r, st) == Append(r.slept, [after |-> st, secs |-> r.attempt + 1])

\* a pass that hands back whatever answer arrived, without testing the status
attempt_any_status(r, st) ==
    LET n == [r EXCEPT !.attempt = @ + 1, !.requests = @ + 1, !.status = st]
    IN  IF st = "exception" THEN [n EXCEPT !.slept = Slept(r, st)]
        ELSE [n EXCEPT !.result = "response"]

\* one pass of the for loop in timed_harvester.py / injector.py
attempt_timed(r, st) ==
    LET n == [r EXCEPT !.attempt = @ + 1, !.requests = @ + 1, !.status = st]
    IN  IF st = "exception" THEN [n EXCEPT !.slept = Slept(r, st)]
        ELSE IF st = "200" THEN [n EXCEPT !.result = "response"]
        ELSE IF st \in {"403", "429", "500"} THEN [n EXCEPT !.slept = Slept(r, st)]
        ELSE IF st = "404" THEN [n EXCEPT !.result = "none"]
        ELSE n

\* one pass of the for loop in complexity_heal.py
attempt_heal(r, st) ==
    LET n == [r EXCEPT !.attempt = @ + 1, !.requests = @ + 1, !.status = st]
    IN  IF st = "exception" THEN [n EXCEPT !.slept = Slept(r, st)]
        ELSE IF st = "200" THEN [n EXCEPT !.result = "response"]
        ELSE IF st \in {"404", "429", "403", "500"} THEN [n EXCEPT !.slept = Slept(r, st)]
        ELSE [n EXCEPT !.result = "none"]

RetryInit ==
    /\ artists = {}
    /\ tracks = {}
    /\ next_artist_id = 1
    /\ next_track_id = 1
    /\ pc = "idle"
    /\ job = "none"
    /\ ops = 0
    /\ run = RunIdle
    /\ cur = CurIdle
    /\ now = 0
    /\ h_fail = 0
    /\ stop_reason = "none"
    /\ rq \in {[RqIdle EXCEPT !.variant = v, !.attempts = n, !.result = "pending"] :
                 v \in Variants, n \in AttemptArgs}
    /\ knn = KnnIdle
    /\ au = AuIdle
    /\ wk = WkIdle
    /\ pv = PvIdle

otherVars == <<artists, tracks, next_artist_id, next_track_id, pc, job, ops, run,
               cur, now, h_fail, stop_reason, auxVars>>

\* for attempt in range(attempts): response = requests.get(...)
Attempt ==
    /\ rq.result = "pending"
    /\ rq.attempt < rq.attempts
    /\ \E st \in Statuses :
         rq' = IF rq.variant = "complexity_heal"
               THEN attempt_heal(rq, st)
               ELSE attempt_timed(rq, st)
    /\ UNCHANGED otherVars

\* the loop ran out: return None
GiveUp ==
    /\ rq.result = "pending"
    /\ rq.attempt = rq.attempts
    /\ rq' = [rq EXCEPT !.result = "none"]
    /\ UNCHANGED otherVars

NextRetry == Attempt \/ GiveUp

RetrySpec == RetryInit /\ [][NextRetry]_vars

-----------------------------------------------------------------------------
(* analyze_audio (timed_harvester.py, src/api_handler.py) *)

\* a / b for b > 0, cancelling common factors before multiplying
RDiv(a, b) ==
    IF a[1] = 0 THEN <<0, 1>>
    ELSE LET g1 == GCD(a[1], b[1])
             g2 == GCD(a[2], b[2])
         IN  Reduce((a[1] \div g1) * (b[2] \div g2), (a[2] \div g2) * (b[1] \div g1))

\* the calibration constants (timed_harvester.py lines 24-27)
COMPLEXITY_DIVISOR == <<3115, 10000>>
NOISINESS_DIVISOR == <<1771, 10000>>
BRIGHTNESS_DIVISOR == <<35691107, 10000>>
WARMTH_DIVISOR == <<79678935, 10000>>

Divisor == [brightness |-> BRIGHTNESS_DIVISOR, noisiness |-> NOISINESS_DIVISOR,
            warmth |-> WARMTH_DIVISOR, complexity |-> COMPLEXITY_DIVISOR]

Normalised == {"brightness", "noisiness", "warmth", "complexity"}

\* a normalisation that forgets the cap
NormNoCap(raw, d) == RDiv(raw, d)

\* min(raw / DIVISOR, 1.0)
Norm(raw, d) == LET v == RDiv(raw, d) IN IF v[1] <= v[2] THEN v ELSE <<1, 1>>

\* raw measurements librosa can hand back for one feature: a mean of
\* magnitudes, rates or deviations, never negative.  Silence, half the
\* calibration constant, the constant itself, and RawFactor times the constant.
RawLevels(d) == {<<0, 1>>, Reduce(d[1], 2 * d[2]), d} \cup
                {Reduce(k * d[1], d[2]) : k \in 2..RawFactor}

RawInputs == [brightness : RawLevels(BRIGHTNESS_DIVISOR),
              noisiness : RawLevels(NOISINESS_DIVISOR),
              warmth : RawLevels(WARMTH_DIVISOR),
              complexity : RawLevels(COMPLEXITY_DIVISOR),
              bpm : {<<120, 1>>}]

AudioVariants == {"timed_harvester", "api_handler"}

\* preview_url: absent, empty, or a URL
Previews == {None, Some(""), Some("u1")}

\* what the download does: a 200 answer, another status, or an exception
Downloads == {"200", "404", "500", "exception"}

\* tmp.write(response.content): it returns, or raises (the disk is full)
Writes == {"ok", "raises"}

\* librosa.load and the feature calls: they return, or one of them raises
Decodes == {"ok", "raises"}

\* the try block: the value it returns, tmp_path when it is left, and whether
\* NamedTemporaryFile(delete=False) has created a file.  tmp_path is assigned
\* after tmp.write, so a write that raises leaves the file and tmp_path = None.
audio_try(a) ==
    IF a.preview = None \/ a.preview = Some("")
    THEN [ret |-> "none", value |-> None, tmp_path |-> None, created |-> FALSE]
    ELSE IF a.download # "200"
    THEN [ret |-> "none", value |-> None, tmp_path |-> None, created |-> FALSE]
    ELSE IF a.write = "raises"
    THEN [ret |-> "none", value |-> None, tmp_path |-> None, created |-> TRUE]
    ELSE IF a.decode = "raises"
    THEN [ret |-> "none", value |-> None, tmp_path |-> Some("tmp.mp3"), created |-> TRUE]
    ELSE [ret |-> "features", created |-> TRUE,
          value |-> Some([bpm |-> a.raw[1].bpm,
                          brightness |-> Norm(a.raw[1].brightness, BRIGHTNESS_DIVISOR),
                          noisiness |-> Norm(a.raw[1].noisiness, NOISINESS_DIVISOR),
                          warmth |-> Norm(a.raw[1].warmth, WARMTH_DIVISOR),
                          complexity |-> Norm(a.raw[1].complexity, COMPLEXITY_DIVISOR)]),
          tmp_path |-> Some("tmp.mp3")]

\* the finally block: os.path.exists(tmp_path) raises TypeError for tmp_path = None,
\* and that exception replaces the value being returned
analyze_audio(a) ==
    LET t == audio_try(a)
    IN  IF t.tmp_path = None
        THEN [a EXCEPT !.result = "raised", !.value = None,
                       !.tmp = IF t.created THEN "left" ELSE "none"]
        ELSE [a EXCEPT !.result = t.ret, !.value = t.value, !.tmp = "removed"]

AudioInit ==
    /\ artists = {NewRow(1, [Artist |-> "muse", Tag_Energy |-> Half, Valence |-> Half])}
    /\ tracks = {}
    /\ next_artist_id = 2
    /\ next_track_id = 1
    /\ pc = "idle"
    /\ job = "none"
    /\ ops = 0
    /\ run = RunIdle
    /\ cur = CurIdle
    /\ now = 0
    /\ h_fail = 0
    /\ stop_reason = "none"
    /\ rq = RqIdle
    /\ knn = KnnIdle
    /\ wk = WkIdle
    /\ pv = PvIdle
    /\ au \in {[AuIdle EXCEPT !.variant = v, !.preview = p, !.download = d, !.write = w,
                              !.decode = c, !.raw = Some(r), !.result = "pending"] :
                 v \in AudioVariants, p \in Previews, d \in Downloads, w \in Writes,
                 c \in Decodes, r \in RawInputs}

\* phys = analyze_audio(t['preview'])
Analyze ==
    /\ au.result = "pending"
    /\ au' = analyze_audio(au)
    /\ UNCHANGED <<storeVars, pc, job, ops, run, cur, now, h_fail, stop_reason, rq,
                   knn, wk, pv>>

\* the dict the processor of a module hands to add_track for track t:
\* timed_harvester.py  {**phys, "title": t['title'], "preview": t['preview']}
\* src/api_handler.py  {**phys, "title": t['title'], "preview_url": t['preview']}
\*                     (injector.py builds the same dict)
track_record(variant, t, phys) ==
    IF variant = "timed_harvester"
    THEN [title |-> t.title, preview |-> t.preview,
          bpm |-> phys.bpm, brightness |-> phys.brightness, noisiness |-> phys.noisiness,
          warmth |-> phys.warmth, complexity |-> phys.complexity]
    ELSE [title |-> t.title, preview_url |-> t.preview,
          bpm |-> phys.bpm, brightness |-> phys.brightness, noisiness |-> phys.noisiness,
          warmth |-> phys.warmth, complexity |-> phys.complexity]

\* if phys: add_track(artist_id, track_record)
StoreTrack ==
    /\ au.result = "features" /\ tracks = {}
    /\ tracks' = add_track(tracks, next_track_id, Some(1),
                   track_record(au.variant, [title |-> "t1", preview |-> au.preview[1]],
                                au.value[1]))
    /\ next_track_id' = next_track_id + 1
    /\ UNCHANGED <<artists, next_artist_id, pc, job, ops, run, cur, now, h_fail,
                   stop_reason, rq, auxVars>>

NextAudio == Analyze \/ StoreTrack

AudioSpec == AudioInit /\ [][NextAudio]_vars

-----------------------------------------------------------------------------
(* synthesize_scores called again and again on a store that does not change *)

\* the composite an artist row carries before the call: never written, or
\* left over from an earlier track set that held one track
Composites == Option(Physics)

WithComposite(a, c) ==
    IF c = None THEN a
    ELSE [a EXCEPT !.avg_bpm = c[1].bpm, !.avg_brightness = c[1].brightness,
                   !.avg_noisiness = c[1].noisiness, !.avg_warmth = c[1].warmth,
                   !.avg_complexity = c[1].complexity]

\* the track rows of artist aid after its previews analysed as the list phys
RECURSIVE TrackRows(_, _, _)
TrackRows(aid, base, phys) ==
    IF phys = <<>> THEN {}
    ELSE LET p == Head(phys)
             t == TopTracks[Len(phys)]
         IN  add_track(TrackRows(aid, base, Tail(phys)), base + Len(phys), Some(aid),
                       [title |-> t.title, preview |-> t.preview, bpm |-> p.bpm,
                        brightness |-> p.brightness, noisiness |-> p.noisiness,
                        warmth |-> p.warmth, complexity |-> p.complexity])

PhysLists == UNION {[1..k -> Physics] : k \in 0..MaxPreviews}

SynthInit ==
    /\ \E c1, c2 \in Composites, p1, p2 \in PhysLists :
         /\ artists = {WithComposite(NewRow(1, [Artist |-> "abba", Tag_Energy |-> Half,
                                                Valence |-> Half]), c1),
                       WithComposite(NewRow(2, [Artist |-> "muse", Tag_Energy |-> Half,
                                                Valence |-> Half]), c2)}
         /\ tracks = TrackRows(1, 0, p1) \cup TrackRows(2, MaxPreviews, p2)
    /\ next_artist_id = 3
    /\ next_track_id = 2 * MaxPreviews + 1
    /\ pc = "idle"
    /\ job = "none"
    /\ ops = 0
    /\ run = RunIdle
    /\ cur \in {[CurIdle EXCEPT !.artist_id = Some(id)] : id \in {1, 2}}
    /\ now = 0
    /\ h_fail = 0
    /\ stop_reason = "none"
    /\ rq = RqIdle
    /\ knn = KnnIdle
    /\ au = AuIdle
    /\ wk = WkIdle
    /\ pv = PvIdle

\* synthesize_scores(artist_id)
Synthesize ==
    /\ ops < MaxOps
    /\ artists' = synthesize_scores(artists, tracks, cur.artist_id)
    /\ ops' = ops + 1
    /\ UNCHANGED <<tracks, next_artist_id, next_track_id, pc, job, run, cur, now,
                   h_fail, stop_reason, rq, auxVars>>

NextSynth == Synthesize

SynthSpec == SynthInit /\ [][NextSynth]_vars

-----------------------------------------------------------------------------
(* Two workers that run add_artist for the same name side by side *)

Workers == 1..NumWorkers

\* an insert on a table without the unique index: it always succeeds
insert_unchecked(arts, nid, data) ==
    [ok |-> TRUE, artists |-> arts \cup {NewRow(nid, data)}, next |-> nid + 1]

\* table("artists").insert(payload).execute(); name is UNIQUE (init_db.py line 20,
\* and the on_conflict="name" of the upsert), so a second row of the name is refused
insert_artist(arts, nid, data) ==
    IF RowsNamed(arts, data.Artist) # {}
    THEN [ok |-> FALSE, artists |-> arts, next |-> nid]
    ELSE [ok |-> TRUE, artists |-> arts \cup {NewRow(nid, data)}, next |-> nid + 1]

\* table("artists").update(update_payload).eq("id", id).execute()
update_artist(arts, id, data) ==
    {IF a.id = id THEN UpdatePayload(a, data) ELSE a : a \in arts}

WorkerStart(v, data) ==
    [variant |-> v, data |-> data, existing |-> None, ret |-> None,
     pc |-> IF v = "db_model" THEN "select" ELSE "upsert"]

WorkerInit ==
    /\ \E n \in Names :
         /\ \E rows \in SUBSET {1, 2} :
              artists = {NewRow(i, [Artist |-> IF i = 1 THEN n
                                               ELSE CHOOSE m \in Names : Lower(m) # Lower(n),
                                    Tag_Energy |-> Half, Valence |-> Half]) : i \in rows}
         /\ wk \in [Workers -> {WorkerStart(v, [Artist |-> n, Tag_Energy |-> tr[2],
                                                 Valence |-> Half]) :
                                  v \in {"db_model", "timed_harvester"}, tr \in TagResults}]
    /\ tracks = {}
    /\ next_artist_id = 3
    /\ next_track_id = 1
    /\ pc = "idle"
    /\ job = "none"
    /\ ops = 0
    /\ run = RunIdle
    /\ cur = CurIdle
    /\ now = 0
    /\ h_fail = 0
    /\ stop_reason = "none"
    /\ rq = RqIdle
    /\ knn = KnnIdle
    /\ au = AuIdle
    /\ pv = PvIdle

workerFrame == <<tracks, next_track_id, pc, job, ops, run, cur, now, h_fail,
                 stop_reason, rq, knn, au, pv>>

\* existing = table("artists").select("id").eq("name", data['Artist']).execute()
WSelect(w) ==
    /\ wk[w].pc = "select"
    /\ LET found == RowsNamed(artists, wk[w].data.Artist)
       IN  wk' = [wk EXCEPT ![w].existing =
                                IF found = {} THEN None
                                ELSE Some((CHOOSE a \in found : TRUE).id),
                            ![w].pc = IF found = {} THEN "insert" ELSE "update"]
    /\ UNCHANGED <<artists, next_artist_id, workerFrame>>

\* if existing.data: update by primary key, return the id
WUpdate(w) ==
    /\ wk[w].pc = "update"
    /\ artists' = update_artist(artists, wk[w].existing[1], wk[w].data)
    /\ wk' = [wk EXCEPT ![w].pc = "done", ![w].ret = wk[w].existing]
    /\ UNCHANGED <<next_artist_id, workerFrame>>

\* otherwise insert; the insert raises when the name has appeared meanwhile
WInsert(w) ==
    /\ wk[w].pc = "insert"
    /\ LET r == insert_artist(artists, next_artist_id, wk[w].data)
       IN  /\ artists' = r.artists
           /\ next_artist_id' = r.next
           /\ wk' = [wk EXCEPT ![w].pc = IF r.ok THEN "done" ELSE "raised",
                               ![w].ret = IF r.ok THEN Some(next_artist_id) ELSE None]
    /\ UNCHANGED workerFrame

\* timed_harvester.py: upsert(payload, on_conflict="name"), one statement
WUpsert(w) ==
    /\ wk[w].pc = "upsert"
    /\ LET r == upsert_artist(artists, next_artist_id, wk[w].data)
       IN  /\ artists' = r.artists
           /\ next_artist_id' = r.next
           /\ wk' = [wk EXCEPT ![w].pc = "done", ![w].ret = r.id]
    /\ UNCHANGED workerFrame

NextWorkers ==
    \E w \in Workers : WSelect(w) \/ WUpdate(w) \/ WInsert(w) \/ WUpsert(w)

WorkerSpec == WorkerInit /\ [][NextWorkers]_vars

-----------------------------------------------------------------------------
(* The similarity engine: get_ai_neighbors and get_track_neighbors *)

RSub(a, b) == Reduce(a[1] * b[2] - b[1] * a[2], a[2] * b[2])
RMul(a, b) == Reduce(a[1] * b[1], a[2] * b[2])
RLe(a, b) == a[1] * b[2] <= b[1] * a[2]

RECURSIVE RSum(_)
RSum(s) == IF s = <<>> THEN <<0, 1>> ELSE RAdd(Head(s), RSum(Tail(s)))

\* .fillna(0)
fillna(v) == IF v = NULL THEN <<0, 1>> ELSE v

\* the columns get_ai_neighbors reads (line 25), in its order
ArtistFeatures == <<"Audio_Brightness", "Valence", "Audio_BPM", "Audio_Noisiness",
                    "Audio_Warmth", "Audio_Complexity">>

\* the store's artist rows in primary-key order
RECURSIVE ById(_)
ById(S) == IF S = {} THEN <<>>
           ELSE LET a == CHOOSE x \in S : \A y \in S : x.id <= y.id
                IN  <<a>> \o ById(S \ {a})

RangeIndex(n) == [i \in 1..n |-> i - 1]

\* fetch_all_artists_df: the selected columns under their renamed labels
fetch_all_artists_df(arts) ==
    LET rows == ById(arts)
    IN  [index |-> RangeIndex(Len(rows)),
         rows |-> [i \in 1..Len(rows) |->
                     [Artist |-> rows[i].name, Audio_Brightness |-> rows[i].avg_brightness,
                      Valence |-> rows[i].valence, Audio_BPM |-> rows[i].avg_bpm,
                      Tag_Energy |-> rows[i].tag_energy,
                      Artist_Lower |-> Lower(rows[i].name)]]]

\* a frame that carries all six feature columns of the artist rows, under the
\* row labels idx
SixColumnFrame(arts, idx) ==
    LET rows == ById(arts)
    IN  [index |-> idx,
         rows |-> [i \in 1..Len(rows) |->
                     [Artist |-> rows[i].name, Audio_Brightness |-> rows[i].avg_brightness,
                      Valence |-> rows[i].valence, Audio_BPM |-> rows[i].avg_bpm,
                      Audio_Noisiness |-> rows[i].avg_noisiness,
                      Audio_Warmth |-> rows[i].avg_warmth,
                      Audio_Complexity |-> rows[i].avg_complexity]]]

\* the first n values of f, as a tuple
RECURSIVE Prefix(_, _)
Prefix(f, n) == IF n = 0 THEN <<>> ELSE Append(Prefix(f, n - 1), f[n])

\* df[cols].fillna(0).values
Values(rows, cols) ==
    Prefix([i \in 1..Len(rows) |->
              Prefix([c \in 1..Len(cols) |-> fillna(rows[i][cols[c]])], Len(cols))],
           Len(rows))

\* StandardScaler: the mean and the population variance of column c
ColMean(X, c) == LET s == RSum(Prefix([i \in 1..Len(X) |-> X[i][c]], Len(X)))
                 IN  Reduce(s[1], s[2] * Len(X))
ColVar(X, c) ==
    LET m == ColMean(X, c)
        s == RSum(Prefix([i \in 1..Len(X) |-> RMul(RSub(X[i][c], m), RSub(X[i][c], m))],
                         Len(X)))
    IN  Reduce(s[1], s[2] * Len(X))

\* scaler.fit(features): the mean and the variance of every column
Scaler(X) == [mean |-> Prefix([c \in 1..Len(X[1]) |-> ColMean(X, c)], Len(X[1])),
              var |-> Prefix([c \in 1..Len(X[1]) |-> ColVar(X, c)], Len(X[1]))]

\* the inner product of the standardized rows i and j; a column of zero
\* variance is scaled by 1, so it standardizes to 0
Dot(X, sc, i, j) ==
    RSum(Prefix([c \in 1..Len(sc.var) |->
                   IF sc.var[c][1] = 0 THEN <<0, 1>>
                   ELSE RDiv(RMul(RSub(X[i][c], sc.mean[c]), RSub(X[j][c], sc.mean[c])),
                             sc.var[c])],
                Len(sc.var)))

\* metric='euclidean': the squared distance of the standardized rows i and j
SqDist(X, sc, i, j) ==
    RSum(Prefix([c \in 1..Len(sc.var) |->
                   IF sc.var[c][1] = 0 THEN <<0, 1>>
                   ELSE RDiv(RMul(RSub(X[i][c], X[j][c]), RSub(X[i][c], X[j][c])),
                             sc.var[c])],
                Len(sc.var)))

\* the squared distance of every row from row q
EuclidKeys(X, q) ==
    LET sc == Scaler(X) IN Prefix([a \in 1..Len(X) |-> SqDist(X, sc, q, a)], Len(X))

\* row a is no farther from the query than row b
EuclidNoFarther(K, a, b) == RLe(K[a], K[b])

\* metric='cosine' is 1 - cos, and a row of zero norm has cosine 0 with every
\* row.  The key of row a is the sign and the square of cos(q, a) |q|.
CosineKeys(X, q) ==
    LET sc == Scaler(X)
        qq == Dot(X, sc, q, q)
    IN  Prefix([a \in 1..Len(X) |->
                  LET aa == Dot(X, sc, a, a)
                      qa == Dot(X, sc, q, a)
                  IN  IF qq[1] = 0 \/ aa[1] = 0 THEN [neg |-> FALSE, sq |-> <<0, 1>>]
                      ELSE [neg |-> qa[1] < 0, sq |-> RDiv(RMul(qa, qa), aa)]],
               Len(X))

\* cos(q, a) >= cos(q, b)
CosineNoFarther(K, a, b) ==
    CASE ~K[a].neg /\ K[b].neg -> TRUE
      [] K[a].neg /\ ~K[b].neg -> FALSE
      [] ~K[a].neg /\ ~K[b].neg -> RLe(K[b].sq, K[a].sq)
      [] OTHER -> RLe(K[a].sq, K[b].sq)

\* knn.kneighbors(vector, n_neighbors=m): the m nearest rows, nearest first;
\* the order among rows at equal distance is not specified
\* nf[a][b] tells that row a is no farther from the query than row b
kneighbors(n, m, nf) ==
    {s \in [1..m -> 1..n] :
        /\ \A i, j \in 1..m : i # j => s[i] # s[j]
        /\ \A i \in 1..(m - 1) : nf[s[i]][s[i + 1]]
        /\ \A r \in 1..n : (\A i \in 1..m : s[i] # r) => nf[s[m]][r]}

\* the euclidean order of the rows by their keys
EuclidOrder(K) ==
    Prefix([a \in 1..Len(K) |->
              Prefix([b \in 1..Len(K) |-> EuclidNoFarther(K, a, b)], Len(K))], Len(K))

\* the cosine order of the rows by their keys
CosineOrder(K) ==
    Prefix([a \in 1..Len(K) |->
              Prefix([b \in 1..Len(K) |-> CosineNoFarther(K, a, b)], Len(K))], Len(K))

Raised == [kind |-> "raised", rows |-> <<>>]
EmptyFrame == [kind |-> "empty", rows |-> <<>>]

\* indices.flatten()[1:], whether or not the first row is the query's own
DropFirst(s) == [kind |-> "rows", rows |-> Tail(s)]

\* get_ai_neighbors(center_artist, df_db, n_neighbors): the results it can
\* give, as positions in df_db.  The label of the matching row is used as a
\* position in the feature matrix (lines 36-38).
get_ai_neighbors(center_artist, df_db, n_neighbors) ==
    LET n == Len(df_db.rows)
    IN  IF n < MinCorpus THEN {EmptyFrame}
        ELSE IF \E c \in 1..Len(ArtistFeatures) : ArtistFeatures[c] \notin DOMAIN df_db.rows[1]
        THEN {Raised}
        ELSE LET target_idx == {i \in 1..n : df_db.rows[i].Artist = center_artist}
             IN  IF target_idx = {} THEN {EmptyFrame}
                 ELSE LET target_index ==
                              df_db.index[CHOOSE i \in target_idx : \A j \in target_idx : i <= j]
                      IN  IF target_index >= n THEN {Raised}
                          ELSE UNION {{DropFirst(s) :
                                         s \in kneighbors(n, Min(n_neighbors + 1, n), nf)} :
                                      nf \in {EuclidOrder(
                                                EuclidKeys(Values(df_db.rows, ArtistFeatures),
                                                           target_index + 1))}}

\* the columns get_track_neighbors reads (line 88), in its order
TrackFeatures == <<"bpm", "brightness", "noisiness", "warmth", "complexity", "valence">>

\* select("*, artists!inner(name, valence, ...)"), flattened: every track that
\* has its artist row, with the artist's name and valence
JoinedTracks(arts, trks) ==
    LET rows == ById({t \in trks : \E a \in arts : t.artist_id = Some(a.id)})
        owner(t) == CHOOSE a \in arts : t.artist_id = Some(a.id)
    IN  Prefix([i \in 1..Len(rows) |->
                  [id |-> rows[i].id, title |-> rows[i].title,
                   artist_name |-> owner(rows[i]).name,
                   bpm |-> rows[i].bpm, brightness |-> rows[i].brightness,
                   noisiness |-> rows[i].noisiness, warmth |-> rows[i].warmth,
                   complexity |-> rows[i].complexity, valence |-> owner(rows[i]).valence]],
               Len(rows))

\* get_track_neighbors(artist_name, track_title, n_neighbors) over the frame
\* df_tracks of the joined rows: the results it can give, as positions in it
get_track_neighbors(df_tracks, artist_name, track_title, n_neighbors) ==
    LET n == Len(df_tracks)
        target_idx == {i \in 1..n : /\ Lower(df_tracks[i].artist_name) = Lower(artist_name)
                                    /\ Lower(df_tracks[i].title) = Lower(track_title)}
    IN  IF n = 0 \/ target_idx = {} THEN {EmptyFrame}
        ELSE UNION {{DropFirst(s) :
                       s \in kneighbors(n, Min(n_neighbors + 1, n), nf)} :
                    nf \in {CosineOrder(
                              CosineKeys(Values(df_tracks, TrackFeatures),
                                         CHOOSE i \in target_idx : \A j \in target_idx : i <= j))}}

\* names the store can hold; two of them differ in casing only
CorpusNames == <<"abba", "ABBA", "muse", "Metallica", "Gorillaz", "The Beatles">>

\* get_audiodb_mood by name: the mood is the artist's, whatever the casing
CorpusValence == <<Half, Half, <<4, 5>>, Half, <<4, 5>>, Half>>

\* what analyze_audio returned for the previews of the corpus: a soft and a
\* loud track
PhysSoft == [bpm |-> <<60, 1>>, brightness |-> <<1, 4>>, noisiness |-> <<1, 2>>,
             warmth |-> <<1, 2>>, complexity |-> <<1, 4>>]
PhysLoud == [bpm |-> <<120, 1>>, brightness |-> <<1, 2>>, noisiness |-> <<1, 4>>,
             warmth |-> <<1, 4>>, complexity |-> <<1, 2>>]

\* how an artist's previews analysed: none, one, or two tracks
Profiles == {<<>>, <<PhysSoft>>, <<PhysLoud>>, <<PhysSoft, PhysLoud>>}

\* the artist row after add_artist, add_track for each preview, synthesize_scores
Resolved(id, phys) ==
    CHOOSE a \in synthesize_scores({NewRow(id, [Artist |-> CorpusNames[id],
                                                 Tag_Energy |-> Half,
                                                 Valence |-> CorpusValence[id]])},
                                   TrackRows(id, (id - 1) * 2, phys), Some(id)) : TRUE

\* row labels a frame can carry: 0..n-1, or 1..n
IndexShapes(n) == {RangeIndex(n), [i \in 1..n |-> i]}

\* the frames handed to get_ai_neighbors
FrameInputs(arts) ==
    {fetch_all_artists_df(arts)} \cup
    {SixColumnFrame(arts, idx) : idx \in IndexShapes(Cardinality(arts))}

QueryInit ==
    /\ \E n \in (MinCorpus - 1)..MaxCorpus :
         \E prof \in [1..n -> Profiles] :
           /\ artists = {Resolved(i, prof[i]) : i \in 1..n}
           /\ tracks = UNION {TrackRows(i, (i - 1) * 2, prof[i]) : i \in 1..n}
           /\ next_artist_id = n + 1
           /\ next_track_id = 2 * n + 1
    /\ knn \in {[KnnIdle EXCEPT !.frame = f] : f \in FrameInputs(artists) \cup {KnnIdle.frame}}
    /\ pc = "idle"
    /\ job = "none"
    /\ ops = 0
    /\ run = RunIdle
    /\ cur = CurIdle
    /\ now = 0
    /\ h_fail = 0
    /\ stop_reason = "none"
    /\ rq = RqIdle
    /\ au = AuIdle
    /\ wk = WkIdle
    /\ pv = PvIdle

queryFrame == <<artists, tracks, next_artist_id, next_track_id, pc, job, ops, run, cur,
                now, h_fail, stop_reason, rq, au, wk, pv>>

\* the names a query can ask for: every name of CorpusNames, stored or not
QueryNames == {CorpusNames[i] : i \in 1..Len(CorpusNames)}

\* get_ai_neighbors(center, frame, k)
QueryArtist ==
    /\ knn.mode = "none"
    /\ knn.frame # KnnIdle.frame
    /\ \E center \in QueryNames, k \in 1..MaxK :
         \E out \in get_ai_neighbors(center, knn.frame, k) :
           knn' = [knn EXCEPT !.mode = "artist", !.center = Some(center), !.k = k,
                              !.out = out]
    /\ UNCHANGED queryFrame

\* titles a query can ask for: a stored title in two casings, and another one
QueryTitles == {"t1", "T1", "t2"}

\* get_track_neighbors(artist_name, track_title, k)
QueryTrack ==
    /\ knn.mode = "none"
    /\ knn.frame = KnnIdle.frame
    /\ \E artist_name \in QueryNames, track_title \in QueryTitles, k \in 1..MaxK :
         LET df_tracks == JoinedTracks(artists, tracks)
         IN  \E out \in get_track_neighbors(df_tracks, artist_name, track_title, k) :
               knn' = [knn EXCEPT !.mode = "track", !.center = Some(artist_name),
                                  !.title = Some(track_title), !.k = k,
                                  !.frame = [index |-> RangeIndex(Len(df_tracks)),
                                             rows |-> df_tracks],
                                  !.out = out]
    /\ UNCHANGED queryFrame

NextQuery == QueryArtist \/ QueryTrack

QuerySpec == QueryInit /\ [][NextQuery]_vars

-----------------------------------------------------------------------------
(* Properties *)

\* no call of process_artist_and_commit / process_artist_sql is under way
Quiescent == pc \in {"idle", "finished", "seed_loop", "page_loop", "cand_loop",
                     "after_cand"}

\* a crawl run is between its start and its end
RunActive == job = "crawl" /\ pc \notin {"idle", "finished", "aborted"}

\* C1: after any sequence of add_artist calls no two artist rows have names
\* that are equal when compared case-insensitively.
UniqueByLowerName ==
    \A a, b \in artists : Lower(a.name) = Lower(b.name) => a = b

\* C2: whenever no candidate is mid-processing, every artist that owns at
\* least one track has each composite field equal to the arithmetic mean of
\* that field over exactly the tracks it owns now.
CompositeIsMean ==
    Quiescent =>
      \A a \in artists :
        LET mine == TracksOf(tracks, Some(a.id))
            k == Cardinality(mine)
            avg == [bpm |-> a.avg_bpm, brightness |-> a.avg_brightness,
                    noisiness |-> a.avg_noisiness, warmth |-> a.avg_warmth,
                    complexity |-> a.avg_complexity]
        IN  mine # {} =>
              \A f \in Fields :
                /\ avg[f] # NULL
                /\ avg[f][1] * SumField(mine, f)[2] * k = SumField(mine, f)[1] * avg[f][2]

\* C2 witness: at rest, an artist owns two tracks with different tempi and its
\* composite BPM is the value of neither.
CompositeIsMeanWitness ==
    /\ Quiescent
    /\ \E a \in artists :
         LET mine == TracksOf(tracks, Some(a.id))
         IN  /\ Cardinality(mine) >= 2
             /\ a.avg_bpm # NULL
             /\ \A t \in mine : t.bpm # a.avg_bpm

\* C3: an artist that ends a resolution or re-analysis pass with no track has
\* composite brightness equal to its tag energy and composite BPM equal to 0.
NoTrackFallback ==
    (pc = "after_cand" /\ cur.artist_id # None) =>
      \A a \in artists :
        (Some(a.id) = cur.artist_id /\ TracksOf(tracks, Some(a.id)) = {}) =>
          /\ a.avg_brightness = a.tag_energy
          /\ a.avg_bpm = <<0, 1>>

\* C4: a candidate whose catalog lookup found nothing writes no artist row
\* and no track row, and does not count toward the seed's quota nor the
\* run's total.
NotFoundNotAdded ==
    [][/\ (pc = "catalog" /\ pc' = "after_cand" /\ cur'.d_info = None) =>
            (artists' = artists /\ tracks' = tracks)
       /\ (job = "crawl" /\ pc = "after_cand" /\ cur.d_info = None) =>
            /\ artists' = artists
            /\ tracks' = tracks
            /\ run'.added_for_this_seed = run.added_for_this_seed
            /\ run'.total_added = run.total_added
            /\ run'.existing_artists = run.existing_artists]_vars

\* C4 witness: a run on a populated store has just had a lookup come back
\* not-found, after an earlier candidate was counted.
NotFoundNotAddedWitness ==
    /\ job = "crawl" /\ pc = "after_cand" /\ cur.d_info = None
    /\ run.total_added > 0

\* C5: once the elapsed time exceeds the budget, the run starts no candidate
\* and scans no further seed, and every row committed so far stays in the store.
BudgetStopsNewWork ==
    [][(RunActive /\ now > run.time_limit_seconds) =>
         /\ ~(pc = "cand_loop" /\ pc' = "catalog")
         /\ ~(pc = "seed_loop" /\ pc' = "page_loop")
         /\ \A a \in artists : \E b \in artists' : b.id = a.id /\ b.name = a.name
         /\ tracks \subseteq tracks']_vars

\* C5 witness: the budget is exceeded while a fetched candidate is still
\* waiting to be processed and the seed's quota is not yet met.
BudgetStopsNewWorkWitness ==
    /\ RunActive /\ now > run.time_limit_seconds
    /\ pc = "cand_loop" /\ run.candidates # <<>>
    /\ run.added_for_this_seed < SeedQuota
    /\ tracks # {}

\* C6: once the number of candidates that failed in a row reaches the
\* threshold, the run processes no further candidate.
FailureThresholdStopsRun ==
    h_fail >= MAX_FAILURES_ALLOWED => pc # "catalog"

\* C7: no failure inside the processing of one candidate ends the crawl run.
CandidateFailureNotFatal ==
    job = "crawl" => (pc # "aborted" /\ stop_reason # "exception")

\* C8: a candidate whose catalog lookup matched comes out of resolution with
\* a result and an artist row, whatever the tag and mood providers returned.
CatalogMatchResolves ==
    (job = "crawl" /\ pc = "after_cand" /\ cur.d_info # None) =>
      /\ cur.result_name # None
      /\ \E a \in artists : Lower(a.name) = Lower(cur.d_info[1])

\* C9: a 404 response ends the call at once: no delay follows it and the
\* call returns no-result without another request.
NotFoundShortCircuits ==
    /\ rq.status = "404" => rq.result = "none"
    /\ \A i \in 1..Len(rq.slept) : rq.slept[i].after # "404"

Transient == {"exception", "403", "429", "500", "503"}

\* C10: every transient failure (exception, 403, 429, any 5xx) is followed by
\* a delay of as many seconds as attempts were made, and the call goes on to
\* retry until its attempts are used up.
TransientRetriedWithBackoff ==
    rq.status \in Transient =>
      /\ rq.slept # <<>>
      /\ rq.slept[Len(rq.slept)] = [after |-> rq.status, secs |-> rq.attempt]
      /\ Len(rq.slept) = rq.attempt
      /\ (rq.result = "none" => rq.attempt = rq.attempts)

\* C15: a delete_artist call that removes an artist row leaves no row of that
\* name and none of the tracks the removed row owned.
DeleteRemovesTracks ==
    [][\A a \in artists :
         (\A b \in artists' : b.id # a.id) =>
           /\ \A b \in artists' : b.name # a.name
           /\ \A t \in tracks' : t.artist_id # Some(a.id)]_vars

\* C16: every brightness, noisiness, warmth and complexity value of a stored
\* track lies in [0, 1] and is the raw measurement over its calibration
\* constant, replaced by 0 below the range and by 1 above it.
StoredFeaturesInRange ==
    \A t \in tracks : \A f \in Normalised :
        LET ratio == RDiv(au.raw[1][f], Divisor[f])
        IN  /\ 0 <= t[f][1] /\ t[f][1] <= t[f][2]
            /\ t[f] = IF ratio[1] < 0 THEN <<0, 1>>
                      ELSE IF ratio[1] > ratio[2] THEN <<1, 1>>
                      ELSE ratio

\* C16 witness: a track is stored whose raw brightness was above the constant
\* and whose raw noisiness was below it.
StoredFeaturesInRangeWitness ==
    \E t \in tracks :
        /\ RDiv(au.raw[1].brightness, BRIGHTNESS_DIVISOR) = <<2, 1>>
        /\ t.brightness = <<1, 1>>
        /\ t.noisiness = <<1, 2>>

\* C17: when the preview reference is absent or empty, the download does not
\* answer 200, or decoding raises, analyze_audio returns None: it neither
\* raises nor returns a feature vector.
AnalyzeFailureIsNone ==
    (/\ au.result \notin {"idle", "pending"}
     /\ \/ au.preview \in {None, Some("")}
        \/ au.download # "200"
        \/ au.write = "raises"
        \/ au.decode = "raises") => au.result = "none"

\* C18: a synthesize_scores call writes, for an artist with tracks, the mean
\* of each field over its current tracks whatever composite was stored
\* before, and a second call in a row on the unchanged track set changes
\* nothing.
SynthesizeIdempotent ==
    [][ops' = ops + 1 =>
         /\ \A a \in artists' :
              LET mine == TracksOf(tracks', Some(a.id))
                  k == Cardinality(mine)
                  avg == [bpm |-> a.avg_bpm, brightness |-> a.avg_brightness,
                          noisiness |-> a.avg_noisiness, warmth |-> a.avg_warmth,
                          complexity |-> a.avg_complexity]
              IN  (Some(a.id) = cur.artist_id /\ mine # {}) =>
                    \A f \in Fields :
                      /\ avg[f] # NULL
                      /\ avg[f][1] * SumField(mine, f)[2] * k
                           = SumField(mine, f)[1] * avg[f][2]
         /\ ops >= 1 => artists' = artists]_vars

\* C18 witness: synthesize_scores has run twice in a row for an artist with
\* two different tracks, next to an artist whose composite is still stale.
SynthesizeIdempotentWitness ==
    /\ ops = 2
    /\ \E a, b \in artists :
         /\ Some(a.id) = cur.artist_id /\ b.id # a.id
         /\ Cardinality({t.bpm : t \in TracksOf(tracks, Some(a.id))}) = 2
         /\ \A t \in TracksOf(tracks, Some(a.id)) : t.bpm # a.avg_bpm
         /\ \E t \in TracksOf(tracks, Some(b.id)) : b.avg_bpm \notin {NULL, t.bpm}

\* C19: when the workers that ran add_artist for one name have all finished,
\* the store holds exactly one artist row of that name, in every interleaving.
OneRowAfterRace ==
    (wk # <<>> /\ \A w \in Workers : wk[w].pc \in {"done", "raised"}) =>
        \A w \in Workers : Cardinality(RowsNamed(artists, wk[w].data.Artist)) = 1

\* C19 witness: both workers looked the name up before either wrote, and both
\* have finished.
OneRowAfterRaceWitness ==
    /\ wk # <<>>
    /\ \A w \in Workers : wk[w].pc \in {"done", "raised"}
    /\ \A w \in Workers : wk[w].variant = "db_model" /\ wk[w].existing = None

\* the position of the query artist's row in the frame of an artist query
QueryRow ==
    CHOOSE i \in 1..Len(knn.frame.rows) :
        /\ knn.frame.rows[i].Artist = knn.center[1]
        /\ \A j \in 1..(i - 1) : knn.frame.rows[j].Artist # knn.center[1]

InFrame == \E i \in 1..Len(knn.frame.rows) : knn.frame.rows[i].Artist = knn.center[1]

\* C11: whatever the corpus of five or more artists and whatever its row
\* labels, no row that get_ai_neighbors returns is the query artist's.
NeverReturnsSelf ==
    (knn.mode = "artist" /\ knn.out.kind = "rows") =>
        \A i \in 1..Len(knn.out.rows) :
            knn.frame.rows[knn.out.rows[i]].Artist # knn.center[1]

\* C12: get_ai_neighbors returns at most k rows, and each returned row is no
\* farther from the query artist, in the standardized space, than the next.
AtMostKByDistance ==
    (knn.mode = "artist" /\ knn.out.kind = "rows") =>
        /\ Len(knn.out.rows) <= knn.k
        /\ LET K == EuclidKeys(Values(knn.frame.rows, ArtistFeatures), QueryRow)
           IN  \A i \in 1..(Len(knn.out.rows) - 1) :
                   EuclidNoFarther(K, knn.out.rows[i], knn.out.rows[i + 1])

\* C13: an artist query over fewer than five artists, or for an artist the
\* corpus does not hold, returns the empty result.
EmptyBelowMinimumOrAbsent ==
    (knn.mode = "artist" /\ (Len(knn.frame.rows) < MinCorpus \/ ~InFrame)) =>
        knn.out.kind = "empty"

\* C14: over the output of fetch_all_artists_df on a store of five artists that
\* all have analysed tracks, the 2 nearest of one of them are two distinct
\* artists among the other four.
TwoOfTheOtherFour ==
    (/\ knn.mode = "artist"
     /\ knn.frame = fetch_all_artists_df(artists)
     /\ Cardinality(artists) = MinCorpus
     /\ \A a \in artists : a.avg_bpm # NULL
     /\ knn.k = 2
     /\ InFrame) =>
        /\ knn.out.kind = "rows"
        /\ Len(knn.out.rows) = 2
        /\ knn.out.rows[1] # knn.out.rows[2]
        /\ \A i \in 1..2 : knn.frame.rows[knn.out.rows[i]].Artist # knn.center[1]

\* the rows of the track frame that match the query, whatever the casing
TrackMatches ==
    {i \in 1..Len(knn.frame.rows) :
        /\ Lower(knn.frame.rows[i].artist_name) = Lower(knn.center[1])
        /\ Lower(knn.frame.rows[i].title) = Lower(knn.title[1])}

\* the query track: the first row that matches
QueryTrackRow == CHOOSE i \in TrackMatches : \A j \in TrackMatches : i <= j

\* C20: a track query finds its track by artist name and title whatever the
\* casing; it returns at most k rows, none of them the query track, each with
\* the name of the artist that owns it; it returns the empty result when the
\* store holds no such track.
TrackQueryExcludesSelf ==
    knn.mode = "track" =>
        /\ TrackMatches = {} => knn.out.kind = "empty"
        /\ TrackMatches # {} =>
             /\ knn.out.kind = "rows"
             /\ Len(knn.out.rows) <= knn.k
             /\ \A i \in 1..Len(knn.out.rows) :
                  LET r == knn.frame.rows[knn.out.rows[i]]
                  IN  /\ knn.out.rows[i] # QueryTrackRow
                      /\ \E t \in tracks, a \in artists :
                           /\ t.id = r.id
                           /\ t.artist_id = Some(a.id)
                           /\ a.name = r.artist_name

\* C21: a candidate that resolves to an artist of the known set leaves the
\* seed's counter and the run's total of added artists as they were.
KnownNotCounted ==
    [][(/\ job = "crawl" /\ pc = "after_cand"
        /\ cur.result_name # None
        /\ Lower(cur.result_name[1]) \in run.existing_artists) =>
           /\ run'.added_for_this_seed = run.added_for_this_seed
           /\ run'.total_added = run.total_added]_vars

\* C23: the resolver is never started on a candidate whose name, lowercased,
\* is in the known set: no catalog request is made for it.
KnownCandidateSkipped ==
    (job = "crawl" /\ pc = "catalog" /\ cur.cand # None) =>
        Lower(cur.cand[1]) \notin run.existing_artists

\* C26: a preview whose analysis fails is skipped and the pass goes on with
\* the next preview: the failure never ends the pass, the artist row exists,
\* and the rows inserted in the pass are as many as the analyses that succeeded.
FailedPreviewSkipped ==
    /\ stop_reason # "analysis_exception"
    /\ pc = "tracks" =>
         /\ \E a \in artists : Some(a.id) = cur.artist_id
         /\ Cardinality({t \in TracksOf(tracks, cur.artist_id) :
                           t.id >= next_track_id - cur.analyzed_count}) = cur.analyzed_count

\* C27: when analyze_audio has returned or raised, on whatever path, no
\* temporary file that the call created is left on disk.
NoTempFileLeft ==
    au.result \notin {"idle", "pending"} => au.tmp # "left"

TracksOfResolved ==
    {t \in tracks : \E a \in artists : /\ Lower(a.name) = Lower(cur.d_info[1])
                                       /\ t.artist_id = Some(a.id)}

\* C25: when a pass that re-analysed a stored artist has finished, every track
\* of that artist was inserted in this pass, and no title is there twice.
ReanalysisReplacesTracks ==
    (job = "heal" /\ pc = "after_cand" /\ cur.is_healing /\ cur.result_name # None) =>
        /\ \A t \in TracksOfResolved : t.id >= next_track_id - cur.analyzed_count
        /\ \A t, u \in TracksOfResolved : t.title = u.title => t = u

-----------------------------------------------------------------------------
(* get_lastfm_tags (timed_harvester.py, src/api_handler.py)                *)
(*                                                                         *)
(* A tag name is the sequence of its characters, so that str.lower() and   *)
(* the substring test `k in t` are computed character by character.        *)

\* tag names the tag provider answers with
TagNames == {<<"R", "o", "c", "k">>,
             <<"D", "e", "a", "t", "h", " ", "M", "e", "t", "a", "l">>,
             <<"p", "o", "p", " ", "p", "u", "n", "k">>,
             <<"j", "a", "z", "z">>,
             <<"P", "o", "p">>}

\* ENERGY = {'death': 1.0, 'metal': 0.9, 'punk': 0.9, 'rock': 0.7, 'pop': 0.6}, in dict order
ENERGY == <<[k |-> <<"d", "e", "a", "t", "h">>, v |-> <<1, 1>>],
            [k |-> <<"m", "e", "t", "a", "l">>, v |-> <<9, 10>>],
            [k |-> <<"p", "u", "n", "k">>, v |-> <<9, 10>>],
            [k |-> <<"r", "o", "c", "k">>, v |-> <<7, 10>>],
            [k |-> <<"p", "o", "p">>, v |-> <<3, 5>>]>>

\* str.lower() on one character
LowerChar(c) == CASE c = "R" -> "r"
                  [] c = "D" -> "d"
                  [] c = "M" -> "m"
                  [] c = "P" -> "p"
                  [] OTHER -> c

\* t['name'].lower()
RECURSIVE LowerName(_)
LowerName(t) == IF t = <<>> THEN <<>> ELSE <<LowerChar(Head(t))>> \o LowerName(Tail(t))

\* tags = [t['name'].lower() for t in data['artist']['tags']['tag']]
RECURSIVE LowerAll(_)
LowerAll(names) ==
    IF names = <<>> THEN <<>> ELSE <<LowerName(Head(names))>> \o LowerAll(Tail(names))

\* k in t
IsSubstring(k, t) == \E i \in 1..(Len(t) - Len(k) + 1) : SubSeq(t, i, i + Len(k) - 1) = k

\* the inner loop of the comprehension: ... for t in tags if k in t
RECURSIVE HitsOfKey(_, _, _)
HitsOfKey(k, v, tags) ==
    IF tags = <<>> THEN <<>>
    ELSE (IF IsSubstring(k, Head(tags)) THEN <<v>> ELSE <<>>) \o HitsOfKey(k, v, Tail(tags))

\* hits = [v for k,v in d.items() for t in tags if k in t]
RECURSIVE Hits(_, _)
Hits(d, tags) ==
    IF d = <<>> THEN <<>>
    ELSE HitsOfKey(Head(d).k, Head(d).v, tags) \o Hits(Tail(d), tags)

\* the sum divided by the number of tags instead of the number of hits
scorePerTag(d, tags) ==
    LET hits == Hits(d, tags)
    IN  IF hits # <<>> THEN RDiv(RSum(hits), <<Len(tags), 1>>) ELSE Half

\* return sum(hits)/len(hits) if hits else 0.5
score(d, tags) ==
    LET hits == Hits(d, tags)
    IN  IF hits # <<>> THEN RDiv(RSum(hits), <<Len(hits), 1>>) ELSE Half

\* get_lastfm_tags: (tags, tag_energy)
get_lastfm_tags(variant, resp) ==
    IF resp.outcome # "ok" THEN [tags |-> <<>>, energy |-> Half]
    ELSE LET tags == LowerAll(resp.tags)
         IN  [tags |-> tags, energy |-> score(ENERGY, tags)]

TagInit ==
    \* either module's helper; the request raises, is answered with another status
    \* than 200, with an error object, or with a list of at most MaxTags tag names
    /\ \E v \in {"timed_harvester", "api_handler"},
          o \in {"raises", "not_200", "error", "ok"},
          names \in UNION {[1..k -> TagNames] : k \in 0..MaxTags} :
         pv = [PvIdle EXCEPT !.fn = "get_lastfm_tags", !.variant = v,
                             !.response = Some([outcome |-> o, tags |-> names])]
    /\ artists = {}
    /\ tracks = {}
    /\ next_artist_id = 1
    /\ next_track_id = 1
    /\ pc = "idle"
    /\ job = "none"
    /\ ops = 0
    /\ run = RunIdle
    /\ cur = CurIdle
    /\ now = 0
    /\ h_fail = 0
    /\ stop_reason = "none"
    /\ rq = RqIdle
    /\ knn = KnnIdle
    /\ au = AuIdle
    /\ wk = WkIdle

providerFrame == <<artists, tracks, next_artist_id, next_track_id, pc, job, ops, run, cur,
                   now, h_fail, stop_reason, rq, knn, au, wk>>

\* tags, tag_energy = get_lastfm_tags(clean_name)
CallTags ==
    /\ pv.fn = "get_lastfm_tags"
    /\ ~pv.done
    /\ pv' = [pv EXCEPT !.result = Some(get_lastfm_tags(pv.variant, pv.response[1])),
                        !.done = TRUE]
    /\ UNCHANGED providerFrame

NextTags == CallTags

TagSpec == TagInit /\ [][NextTags]_vars

\* the (table entry, tag) pairs where the entry's key occurs in the tag
TagMatches(tags) ==
    {m \in (1..Len(ENERGY)) \X (1..Len(tags)) : IsSubstring(ENERGY[m[1]].k, tags[m[2]])}

\* the sum of the table scores over a set of matches
RECURSIVE MatchSum(_)
MatchSum(ms) ==
    IF ms = {} THEN <<0, 1>>
    ELSE LET m == CHOOSE x \in ms : TRUE
         IN  RAdd(ENERGY[m[1]].v, MatchSum(ms \ {m}))

\* C30: the energy get_lastfm_tags returns is the sum of the table scores over
\* the matches between the artist's lower-cased tags and the table divided by
\* the number of matches; it is 0.5 when nothing matches or the provider
\* fails; it is never below 0 nor above 1.
TagEnergyIsMean ==
    (pv.fn = "get_lastfm_tags" /\ pv.done) =>
        LET e == pv.result[1].energy
            ok == pv.response[1].outcome = "ok"
            ms == IF ok THEN TagMatches(pv.result[1].tags) ELSE {}
            total == MatchSum(ms)
        IN  /\ ms # {} => e[1] * total[2] * Cardinality(ms) = total[1] * e[2]
            /\ ms = {} => e = Half
            /\ 0 <= e[1] /\ e[1] <= e[2] /\ e[2] > 0

\* a tag that matches two table entries next to a tag that matches none: (1.0 + 0.9) / 2
TagEnergyIsMeanWitness ==
    /\ pv.fn = "get_lastfm_tags" /\ pv.done
    /\ pv.response[1].outcome = "ok"
    /\ Len(pv.result[1].tags) = 2
    /\ Cardinality(TagMatches(pv.result[1].tags)) = 2
    /\ pv.result[1].energy = <<19, 20>>
-----------------------------------------------------------------------------
(* The catalog helpers: get_deezer_data, get_top_tracks_previews and       *)
(* get_release_year, as each module defines them.                          *)

\* how one HTTP request can end: an exception of requests, an answer with
\* another status than 200 (an error object without 'data'), an answer with 200
HttpOutcomes == {"raises", "not_200", "ok"}

\* the artists a search can match
ArtistMatches == {[name |-> "ABBA", id |-> 7, nb_fan |-> 900, picture_medium |-> "a.jpg"],
                  [name |-> "muse", id |-> 8, nb_fan |-> 500, picture_medium |-> "m.jpg"]}

\* data['data'] of the /top?limit=1 answer
TopOne == {<<>>, <<[id |-> 31, preview |-> "u1"]>>}

\* the dict get_deezer_data returns
DeezerInfo(artist, top) ==
    Some([name |-> artist.name, id |-> artist.id, listeners |-> artist.nb_fan,
          image |-> artist.picture_medium,
          preview |-> IF top # <<>> THEN Some(top[1].preview) ELSE None,
          top_track_id |-> IF top # <<>> THEN Some(top[1].id) ELSE None])

\* get_deezer_data(artist_name): None or the dict of the first match
get_deezer_data(variant, search, top) ==
    CASE variant = "timed_harvester" ->
           \* api_request_with_retry answers None unless the status is 200
           IF search.outcome # "ok" THEN None
           ELSE IF search.data = <<>> THEN None
           ELSE DeezerInfo(search.data[1], IF top.outcome = "ok" THEN top.data ELSE <<>>)
      [] variant = "api_handler" ->
           IF search.outcome # "ok" THEN None
           ELSE IF search.data = <<>> THEN None
           \* requests.get(track_url, ...).json() inside the try
           ELSE IF top.outcome = "raises" THEN None
           ELSE DeezerInfo(search.data[1], IF top.outcome = "ok" THEN top.data ELSE <<>>)
      [] variant = "smart_timed_harvest" ->
           \* response = requests.get(...).json(); response.status_code raises
           \* AttributeError on the parsed dict, caught by the bare except
           None

\* one entry of the top-tracks answer: 'preview' is absent or null, empty, or a URL
TopEntries == {[title |-> t, preview |-> p] : t \in {"t1", "t2"}, p \in Previews}

\* data['data'] of the /top?limit=N answer: the provider sends at most N entries
TopLists == UNION {[1..k -> TopEntries] : k \in 0..Min(MaxTop, TRACKS_TO_ANALYZE)}

\* for t in data['data']: if 'preview' in t and t['preview']: tracks.append(...)
RECURSIVE WithPreview(_)
WithPreview(data) ==
    IF data = <<>> THEN <<>>
    ELSE (IF Head(data).preview # None /\ Head(data).preview[1] # ""
          THEN <<[title |-> Head(data).title, preview |-> Head(data).preview[1]]>>
          ELSE <<>>) \o WithPreview(Tail(data))

\* get_top_tracks_previews(deezer_id)
get_top_tracks_previews(variant, resp) ==
    CASE variant = "timed_harvester" ->
           IF resp.outcome # "ok" THEN <<>> ELSE WithPreview(resp.data)
      [] variant = "api_handler" ->
           \* resp.get('data') on the Response object raises AttributeError,
           \* caught by the bare except
           <<>>

\* a release date "YYYY-MM-DD" is <<YYYY, MM, DD>>: the order of the zero-padded
\* strings is the lexicographic order of the triples, and int(s[:4]) is the first
ReleaseDates == {<<1999, 12, 31>>, <<2000, 1, 1>>, <<2000, 6, 15>>}

DateLess(a, b) ==
    \/ a[1] < b[1]
    \/ a[1] = b[1] /\ a[2] < b[2]
    \/ a[1] = b[1] /\ a[2] = b[2] /\ a[3] < b[3]

\* min(dates) of a non-empty list
RECURSIVE MinDate(_)
MinDate(dates) ==
    IF Len(dates) = 1 THEN dates[1]
    ELSE LET m == MinDate(Tail(dates))
         IN  IF DateLess(m, Head(dates)) THEN m ELSE Head(dates)

\* the discographies of at most n pages; a discography of p pages is given by
\* the release dates of the dated albums of each page, in listing order: every
\* page but the last holds AlbumPageSize albums; the answer for a page carries
\* 'total' and, on every page but the last, 'next'; fail_at is the page whose
\* request fails, if any
Listings(n) ==
    {[pages |-> pg, last |-> c, fail_at |-> f] :
        pg \in UNION {[1..p -> UNION {[1..k -> ReleaseDates] : k \in 0..MaxDated}] :
                         p \in 0..n},
        c \in {MaxDated + 1, AlbumPageSize},
        f \in 0..n}

Total(l) == IF l.pages = <<>> THEN 0 ELSE AlbumPageSize * (Len(l.pages) - 1) + l.last

\* the while True loop of get_release_year, entered for the page at i (offset = 50 (i - 1))
RECURSIVE ScanAlbums(_, _, _)
ScanAlbums(l, i, earliest) ==
    IF l.fail_at = i THEN earliest                        \* if not response: break
    ELSE IF i > Len(l.pages) THEN earliest                \* not data['data']: break
    ELSE LET dates == l.pages[i]
             e == IF dates = <<>> THEN earliest
                  ELSE IF earliest = None \/ DateLess(MinDate(dates), earliest[1])
                       THEN Some(MinDate(dates))
                       ELSE earliest
         IN  IF Total(l) <= AlbumPageSize * (i - 1) + AlbumPageSize THEN e
             ELSE IF i < Len(l.pages) THEN ScanAlbums(l, i + 1, e)   \* 'next' in data
             ELSE e

\* get_release_year(artist_id)
get_release_year(variant, l) ==
    IF variant = "complexity_heal"
    THEN \* one request, albums?limit=50
         IF l.fail_at = 1 \/ l.pages = <<>> \/ l.pages[1] = <<>> THEN 0
         ELSE MinDate(l.pages[1])[1]
    ELSE LET earliest == ScanAlbums(l, 1, None)
         IN  IF earliest # None THEN earliest[1][1] ELSE 0

\* the calls of the three helpers on discographies of at most n pages
CatalogCalls(n) ==
    {[PvIdle EXCEPT !.fn = "get_deezer_data", !.variant = v,
                    !.response = Some([search |-> [outcome |-> so, data |-> sd],
                                       top |-> [outcome |-> to, data |-> td]])] :
        v \in {"timed_harvester", "api_handler", "smart_timed_harvest"},
        so \in HttpOutcomes,
        sd \in UNION {[1..k -> ArtistMatches] : k \in 0..MaxMatches},   \* best match first
        to \in HttpOutcomes, td \in TopOne}
    \cup
    {[PvIdle EXCEPT !.fn = "get_top_tracks_previews", !.variant = v,
                    !.response = Some([outcome |-> o, data |-> d])] :
        v \in {"timed_harvester", "api_handler"}, o \in HttpOutcomes, d \in TopLists}
    \cup
    {[PvIdle EXCEPT !.fn = "get_release_year", !.variant = v, !.response = Some(l)] :
        v \in {"api_handler", "timed_harvester", "complexity_heal"},
        l \in {x \in Listings(n) : x.fail_at <= Len(x.pages)}}

CatalogInit ==
    /\ pv \in CatalogCalls(MaxAlbumPages)
    /\ artists = {}
    /\ tracks = {}
    /\ next_artist_id = 1
    /\ next_track_id = 1
    /\ pc = "idle"
    /\ job = "none"
    /\ ops = 0
    /\ run = RunIdle
    /\ cur = CurIdle
    /\ now = 0
    /\ h_fail = 0
    /\ stop_reason = "none"
    /\ rq = RqIdle
    /\ knn = KnnIdle
    /\ au = AuIdle
    /\ wk = WkIdle

\* d_info = get_deezer_data(name)
CallCatalog ==
    /\ pv.fn = "get_deezer_data"
    /\ ~pv.done
    /\ pv' = [pv EXCEPT !.result = get_deezer_data(pv.variant, pv.response[1].search,
                                                   pv.response[1].top),
                        !.done = TRUE]
    /\ UNCHANGED providerFrame

\* tracks = get_top_tracks_previews(d_info['id'])
CallTopTracks ==
    /\ pv.fn = "get_top_tracks_previews"
    /\ ~pv.done
    /\ pv' = [pv EXCEPT !.result = Some(get_top_tracks_previews(pv.variant, pv.response[1])),
                        !.done = TRUE]
    /\ UNCHANGED providerFrame

\* release_year = get_release_year(d_info['id'])
CallReleaseYear ==
    /\ pv.fn = "get_release_year"
    /\ ~pv.done
    /\ pv' = [pv EXCEPT !.result = Some(get_release_year(pv.variant, pv.response[1])),
                        !.done = TRUE]
    /\ UNCHANGED providerFrame

NextCatalog == CallCatalog \/ CallTopTracks \/ CallReleaseYear

CatalogSpec == CatalogInit /\ [][NextCatalog]_vars

\* C24: in every variant a search answered with 200 and at least one match
\* resolves to the first match (name, id, popularity, artwork), and not_found
\* is reported only when the search matched nothing or the request failed.
FirstMatchResolved ==
    (pv.fn = "get_deezer_data" /\ pv.done) =>
        LET search == pv.response[1].search
        IN  /\ (search.outcome = "ok" /\ search.data # <<>>) =>
                 /\ pv.result # None
                 /\ pv.result[1].name = search.data[1].name
                 /\ pv.result[1].id = search.data[1].id
                 /\ pv.result[1].listeners = search.data[1].nb_fan
                 /\ pv.result[1].image = search.data[1].picture_medium
            /\ pv.result = None => (search.outcome # "ok" \/ search.data = <<>>)

\* the positions of the provider's entries that carry a non-empty preview
Usable(data) == {i \in 1..Len(data) : data[i].preview # None /\ data[i].preview[1] # ""}

\* C28: for a successful provider answer the list returned holds, in provider
\* order, exactly the entries with a non-empty preview, at most N of them.
ExactlyThePreviewed ==
    (pv.fn = "get_top_tracks_previews" /\ pv.done /\ pv.response[1].outcome = "ok") =>
        LET data == pv.response[1].data
            out == pv.result[1]
        IN  /\ Len(out) = Cardinality(Usable(data))
            /\ Len(out) <= TRACKS_TO_ANALYZE
            /\ \A i \in Usable(data) :
                 LET r == Cardinality({j \in Usable(data) : j <= i})
                 IN  /\ r <= Len(out)
                     /\ out[r] = [title |-> data[i].title, preview |-> data[i].preview[1]]

\* the years of the dated albums of every page of a listing
YearsOf(l) == {l.pages[i][j][1] : <<i, j>> \in {x \in (1..Len(l.pages)) \X (1..MaxDated) :
                                                  x[2] <= Len(l.pages[x[1]])}}

\* C29: when every page is answered, get_release_year returns the least year
\* over the dated albums of all pages, and 0 when no page has a dated album.
EarliestOverAllPages ==
    (pv.fn = "get_release_year" /\ pv.done /\ pv.response[1].fail_at = 0) =>
        LET years == YearsOf(pv.response[1])
        IN  IF years = {} THEN pv.result[1] = 0
            ELSE /\ pv.result[1] \in years
                 /\ \A y \in years : pv.result[1] <= y

\* C31: one call of api_request_with_retry makes at most `attempts` requests
\* (3 by default), what it returns as a response was answered with status 200,
\* and a call that ended after any other last answer returned None.
RetryBoundedAnd200Only ==
    /\ rq.requests <= rq.attempts
    /\ rq.attempts = DefaultAttempts => rq.requests <= 3
    /\ rq.result = "response" => rq.status = "200"
    /\ (rq.result \in {"response", "none"} /\ rq.status # "200") => rq.result = "none"
    /\ (rq.result = "pending" /\ rq.attempt > 0) => rq.status # "200"

\* the third and last request of a default call is the one answered with 200
RetryBoundedAnd200OnlyWitness ==
    /\ rq.variant = "timed_harvester"
    /\ rq.attempts = DefaultAttempts
    /\ rq.requests = DefaultAttempts
    /\ rq.result = "response"
    /\ Len(rq.slept) = 2

\* C32: every stored track row carries, as preview_url, the non-empty preview
\* reference that was passed to analyze_audio for that track.
PreviewReferenceStored ==
    \A t \in tracks :
        /\ au.preview # None
        /\ t.preview_url # ""
        /\ t.preview_url = au.preview[1]

\* C33: the crawler inserts a track only under the id of an artist row that
\* exists, never under a missing id; a candidate whose upsert returned no id
\* is not reported as added (and so is neither marked known nor counted).
TracksOwnedByStoredArtist ==
    [][job = "crawl" =>
         /\ next_track_id' # next_track_id =>
              /\ cur.artist_id # None
              /\ \E a \in artists : Some(a.id) = cur.artist_id
         /\ (pc = "tracks" /\ cur.artist_id = None /\ pc' = "after_cand") =>
              cur'.result_name = None]_vars

\* C34: once the elapsed time exceeds the budget while a seed is being expanded
\* (its first page has been requested), no additional page of similar artists
\* is requested, for that seed or for any later seed.
NoPageAfterBudget ==
    [][(job = "crawl" /\ TimeUp /\ run.requested >= 1) =>
         run'.requested # run.requested + 1]_vars

\* C35: for every candidate the store is written in the order artist upsert,
\* track inserts, at most one synthesize_scores: the artist table is written
\* by the upsert before any track and by synthesize_scores after the last one,
\* and a track is inserted only when its artist row already exists.
StoreWritesInOrder ==
    [][job = "crawl" =>
         /\ artists' # artists =>
              \/ pc = "upsert" /\ cur.analyzed_count = 0 /\ cur.todo = <<>>
              \/ pc = "tracks" /\ cur.todo = <<>> /\ pc' = "after_cand"
         /\ tracks' # tracks =>
              /\ pc = "tracks" /\ pc' = "tracks"
              /\ \E a \in artists : Some(a.id) = cur.artist_id]_vars

\* a step in which add_artist is applied to the store: the upsert of a
\* candidate, or manual_fix.py
AddArtistStep ==
    \/ pc = "upsert"
    \/ /\ pc \in {"idle", "finished"} /\ pc' = "idle" /\ ops' = ops + 1
       /\ Cardinality(artists') >= Cardinality(artists)

\* C36: add_artist leaves every stored artist's id, name, owned tracks and
\* composite fields as they were, and changes at most the record it was
\* applied to.
AddArtistKeepsRecord ==
    [][AddArtistStep =>
         /\ tracks' = tracks
         /\ \A a \in artists :
              \E b \in artists' :
                /\ b.id = a.id /\ b.name = a.name
                /\ b.avg_bpm = a.avg_bpm /\ b.avg_brightness = a.avg_brightness
                /\ b.avg_noisiness = a.avg_noisiness /\ b.avg_warmth = a.avg_warmth
                /\ b.avg_complexity = a.avg_complexity
         /\ Cardinality({a \in artists : a \notin artists'}) <= 1]_vars

\* add_artist has just been applied to a stored artist that owns tracks and has
\* composites, with values that differ from the stored ones
AddArtistKeepsRecordWitness ==
    /\ job = "heal" /\ pc = "clean"
    /\ \E a \in artists :
         /\ Some(a.id) = cur.artist_id
         /\ a.avg_bpm # NULL
         /\ TracksOf(tracks, Some(a.id)) # {}
         /\ a.tag_energy # Half

\* C37: every crawl run whose provider calls all return reaches its final
\* 'job finished' state.
CrawlReachesFinished ==
    (job = "crawl") ~> (pc = "finished")

\* the run's loops are bounded: a run that is not ended by an exception does
\* finish
CrawlFinishesOrAborts ==
    (job = "crawl") ~> (pc \in {"finished", "aborted"})

-----------------------------------------------------------------------------
(* the paging loop of get_release_year, one iteration at a time, against a   *)
(* provider that answers each request as it likes                            *)

\* the answers to one albums request: the request's outcome and, for a 200,
\* the decoded body: 'data' absent (None) or the release dates of the page's
\* dated albums together with the page's album count, 'total' absent or a
\* number, 'next' present or not
AlbumAnswers ==
    {[outcome |-> o, data |-> d, total |-> t, next |-> n] :
        o \in HttpOutcomes,
        d \in {None} \cup {Some([albums |-> 0, dates |-> <<>>]),
                           Some([albums |-> AlbumPageSize, dates |-> <<>>])}
                     \cup {Some([albums |-> AlbumPageSize, dates |-> <<x>>]) :
                              x \in ReleaseDates},
        t \in {None} \cup {Some(AlbumPageSize * k) : k \in 0..MaxScanPages},
        n \in BOOLEAN}

\* offsets past every total an answer can report compare alike with all of
\* them, so they are kept as one value; `odd` tells whether the page being
\* requested is the 1st, 3rd, ... so that each further page is a new state
ScanOffset(o) == Min(o, AlbumPageSize * MaxScanPages)

\* one pass through the body of `while True`
scan_iteration(s, a) ==
    IF a.outcome # "ok" THEN [s EXCEPT !.stage = "exit", !.why = "request"]
    ELSE IF a.data = None \/ a.data[1].albums = 0
    THEN [s EXCEPT !.stage = "exit", !.why = "empty"]
    ELSE LET dates == a.data[1].dates
             e == IF dates = <<>> THEN s.earliest
                  ELSE IF s.earliest = None \/ DateLess(MinDate(dates), s.earliest[1])
                       THEN Some(MinDate(dates))
                       ELSE s.earliest
             t == [s EXCEPT !.earliest = e]
         IN  IF a.total # None /\ a.total[1] <= s.offset + AlbumPageSize
             THEN [t EXCEPT !.stage = "exit", !.why = "total"]
             ELSE IF a.next
             THEN [t EXCEPT !.offset = ScanOffset(s.offset + AlbumPageSize),
                            !.odd = ~s.odd]
             ELSE [t EXCEPT !.stage = "exit", !.why = "no_next"]

ScanInit ==
    /\ pv \in {[fn |-> "get_release_year", variant |-> v, response |-> None,
                result |-> None, done |-> FALSE, offset |-> 0, earliest |-> None,
                stage |-> "loop", why |-> "none", odd |-> TRUE] :
                  v \in {"api_handler", "timed_harvester"}}
    /\ artists = {}
    /\ tracks = {}
    /\ next_artist_id = 1
    /\ next_track_id = 1
    /\ pc = "idle"
    /\ job = "none"
    /\ ops = 0
    /\ run = RunIdle
    /\ cur = CurIdle
    /\ now = 0
    /\ h_fail = 0
    /\ stop_reason = "none"
    /\ rq = RqIdle
    /\ knn = KnnIdle
    /\ au = AuIdle
    /\ wk = WkIdle

\* request the page at the current offset and run the loop body on the answer
ScanPage ==
    /\ ~pv.done /\ pv.stage = "loop"
    /\ \E a \in AlbumAnswers : pv' = scan_iteration(pv, a)
    /\ UNCHANGED providerFrame

\* return int(earliest_date_str[:4]) if earliest_date_str else 0
ScanReturn ==
    /\ ~pv.done /\ pv.stage = "exit"
    /\ pv' = [pv EXCEPT !.result = Some(IF pv.earliest # None THEN pv.earliest[1][1] ELSE 0),
                        !.done = TRUE]
    /\ UNCHANGED providerFrame

NextScan ==
    \/ ScanPage
    \/ ScanReturn

\* the function runs in one thread: its next step is always taken
ScanSpec == ScanInit /\ [][NextScan]_vars /\ WF_vars(NextScan)

\* C38: the paging loop of get_release_year terminates for every sequence of
\* provider responses.
ScanTerminates ==
    <>(pv.done)

\* an iteration that stays in the loop moves to a larger offset, and the loop
\* is left only for a failed request, an empty page, a reached total or a
\* missing next-page marker
ScanAdvancesOrLeaves ==
    [][(pv.stage = "loop" /\ pv.offset < AlbumPageSize * MaxScanPages) =>
         \/ pv'.stage = "loop" /\ pv'.offset = pv.offset + AlbumPageSize
         \/ pv'.stage = "exit" /\ pv'.offset = pv.offset
                               /\ pv'.why \in {"request", "empty", "total", "no_next"}]_vars

-----------------------------------------------------------------------------
(* two crawl runs of timed_harvester.py at work on one store at the same     *)
(* time, each about to process the same candidate; wk[w] holds run w's       *)
(* locals                                                                   *)

NewCandidate == "muse"

RunsInit ==
    /\ artists \in {{}, {NewRow(1, [Artist |-> "ABBA", Tag_Energy |-> Half,
                                     Valence |-> Half])}}
    /\ tracks = {}
    /\ next_artist_id = 2
    /\ next_track_id = 1
    /\ wk \in [Workers -> {[pc |-> "load", existing_artists |-> {},
                             data |-> [Artist |-> NewCandidate, Tag_Energy |-> tr[2],
                                       Valence |-> Half],
                             artist_id |-> None, todo |-> <<>>, analyzed_count |-> 0,
                             result_name |-> None] : tr \in TagResults \ {<<FALSE, Half>>}}]
    /\ pc = "idle"
    /\ job = "none"
    /\ ops = 0
    /\ run = RunIdle
    /\ cur = CurIdle
    /\ now = 0
    /\ h_fail = 0
    /\ stop_reason = "none"
    /\ rq = RqIdle
    /\ knn = KnnIdle
    /\ au = AuIdle
    /\ pv = PvIdle

runsFrame == <<pc, job, ops, run, cur, now, h_fail, stop_reason, rq, knn, au, pv>>

\* existing_artists = set(df['Artist'].str.lower()); later, for the candidate,
\* `if clean_name.lower() in existing_artists: return clean_name`
RunLoad(w) ==
    /\ wk[w].pc = "load"
    /\ LET known == KnownLower(artists)
       IN  wk' = [wk EXCEPT ![w].existing_artists = known,
                            ![w].pc = IF Lower(wk[w].data.Artist) \in known
                                      THEN "done" ELSE "upsert",
                            ![w].result_name = IF Lower(wk[w].data.Artist) \in known
                                               THEN Some(wk[w].data.Artist) ELSE None]
    /\ UNCHANGED <<storeVars, runsFrame>>

\* artist_id = add_artist(artist_data); tracks = get_top_tracks_previews(...)
RunUpsert(w) ==
    /\ wk[w].pc = "upsert"
    /\ LET r == upsert_artist(artists, next_artist_id, wk[w].data)
       IN  /\ artists' = r.artists
           /\ next_artist_id' = r.next
           /\ \E tl \in TrackLists :
                wk' = [wk EXCEPT ![w].artist_id = r.id, ![w].todo = tl,
                                 ![w].pc = "tracks"]
    /\ UNCHANGED <<tracks, next_track_id, runsFrame>>

\* for t in tracks: phys = analyze_audio(t['preview']); if phys: add_track(...)
RunTrack(w) ==
    /\ wk[w].pc = "tracks" /\ wk[w].todo # <<>>
    /\ \E phys \in Option(Physics) :
         LET t == Head(wk[w].todo)
         IN  IF phys = None
             THEN /\ wk' = [wk EXCEPT ![w].todo = Tail(@)]
                  /\ UNCHANGED <<tracks, next_track_id>>
             ELSE /\ tracks' = add_track(tracks, next_track_id, wk[w].artist_id,
                                 track_record("timed_harvester", t, phys[1]))
                  /\ next_track_id' = next_track_id + 1
                  /\ wk' = [wk EXCEPT ![w].todo = Tail(@), ![w].analyzed_count = @ + 1]
    /\ UNCHANGED <<artists, next_artist_id, runsFrame>>

\* if analyzed_count > 0: synthesize_scores(artist_id); return clean_name
RunSynth(w) ==
    /\ wk[w].pc = "tracks" /\ wk[w].todo = <<>>
    /\ artists' = IF wk[w].analyzed_count > 0
                  THEN synthesize_scores(artists, tracks, wk[w].artist_id)
                  ELSE artists
    /\ wk' = [wk EXCEPT ![w].pc = "done", ![w].result_name = Some(wk[w].data.Artist),
                        ![w].existing_artists = @ \cup {Lower(wk[w].data.Artist)}]
    /\ UNCHANGED <<tracks, next_artist_id, next_track_id, runsFrame>>

NextRuns ==
    \E w \in Workers : RunLoad(w) \/ RunUpsert(w) \/ RunTrack(w) \/ RunSynth(w)

RunsSpec == RunsInit /\ [][NextRuns]_vars

\* both runs loaded the store before either wrote the candidate, and both have
\* finished processing it
BothDiscovered ==
    \A w \in Workers : /\ wk[w].pc = "done"
                       /\ wk[w].artist_id # None
                       /\ Lower(NewCandidate) \notin (wk[w].existing_artists
                                                       \ {Lower(wk[w].data.Artist)})

\* C39: when two runs that loaded the same snapshot both add the same new
\* artist, the store ends with one row for that artist and with the tracks of
\* one analysis pass: no title is there twice and no more tracks than one pass
\* analyses.
OneRowOnePass ==
    BothDiscovered =>
        /\ Cardinality(RowsNamed(artists, NewCandidate)) = 1
        /\ \A t, u \in Referencing(artists, tracks, NewCandidate) :
               t.title = u.title => t = u
        /\ Cardinality(Referencing(artists, tracks, NewCandidate)) <= MaxPreviews

\* the artist row is single whatever the interleaving
OneRowForCandidate ==
    Cardinality(RowsNamed(artists, NewCandidate)) <= 1
====
